---- MODULE Spec2Model ----
(***************************************************************************)
(* Verification model of the Morgana agent protocol scripts.               *)
(*                                                                         *)
(*  Part I   CommandChannel: MorganaCommandPoller, write_command and       *)
(*           integration_check_point (scripts/morgana_command_poll.py).    *)
(*           Specification: Spec.                                          *)
(*  Part II  TaskRegistry / Orchestrator: SubAgentOrchestrator             *)
(*           (archive/ipc-removal/scripts/morgana_subagent_bridge.py).     *)
(*           Specifications: OrchSpec (creating and executing tasks) and   *)
(*           TreeSpec (creating tasks only, with any parent_id).           *)
(*  Part III EventLog: MorganaEventLogger (scripts/morgana_events.py),     *)
(*           two producer processes.  Specification: LogSpec.              *)
(*  Part IV  poll_once step by step, interleaved with write_command.       *)
(*           Specification: StepSpec.                                      *)
(*  Part V   State callbacks of the poller.  Specification: CallbackSpec.  *)
(*  Part VI  ClaudeAgentExecutor.execute_agent                             *)
(*           (scripts/claude_agent_executor.py).  Specification: ExecSpec. *)
(*  Part VII The file mailbox of MorganaREPL                               *)
(*           (archive/ipc-removal/scripts/morgana_repl.py), with worker    *)
(*           processes that die and restart.  Specification: MailSpec.     *)
(*  Part VIII Text fields of task events.  Specification: TextSpec.        *)
(*  Part IX  write_command file operation by file operation.               *)
(*           Specification: WriteSpec.                                     *)
(*  Part X   The rate limit of poll_once, with a clock and two calling     *)
(*           threads.  Specification: RateSpec.                            *)
(*  Part XI  ClaudeAgentExecutor.execute_parallel.  Specification: ParSpec.*)
(*  Part XII The follow mode of view_events                                *)
(*           (scripts/morgana_events_viewer.py) beside the producers of    *)
(*           Part III.  Specification: ViewSpec.                           *)
(*  DirectorSpec is OrchSpec with a caller that also creates tasks under   *)
(*  a registered parent.                                                   *)
(*                                                                         *)
(* Outside Part X, timing (time.sleep, _enforce_rate_limit) only delays a  *)
(* step and is not part of the state.                                      *)
(***************************************************************************)
EXTENDS Integers, Sequences, FiniteSets, TLC

VARIABLES
    \* ---- Part I: command channel ----
    state,          \* MorganaCommandPoller.state (ExecutionState)
    commands_file,  \* the slot /tmp/morgana/commands.txt: [exists, text]
    pc,             \* worker thread: "idle", or "waiting" inside wait_while_paused
    call,           \* the worker's most recent API call
    ret,            \* its outcome: "pending", "True", "False", "raised"
    waited,         \* the current/last checkpoint call entered wait_while_paused
    emitted,        \* events logged by integration_check_point itself in that call
    hist,           \* observation of the most recent poll_once execution
    written,        \* commands written by write_command since the last poll_once
                    \* (kept only while nothing else wrote the slot)
    tainted,        \* the slot was written by something else since the last poll_once
    expected,       \* state prescribed by the transition table for the script so far
    onScript,       \* every poll_once so far followed exactly one write_command
    \* ---- Part II: orchestrator ----
    tasks,          \* SubAgentOrchestrator.tasks: id -> SubAgentTask
    execution_stack,\* SubAgentOrchestrator.execution_stack
    opc,            \* control location of the orchestrator's thread
    cur,            \* task of the running execute_with_subagents call
    stage,          \* director stage being worked on (1..3)
    leaf,           \* task the running execute_agent call works on
    outcome,        \* how the orchestrator's most recent API call ended
    published,      \* events that call has written to the outbox
    inbox,          \* request files in the inbox: <<kind, task id>>
    calls,          \* execute_with_subagents calls made so far
    fault,          \* what went wrong in the most recent API call: "none",
                    \* "work" (the executor raised), "publish" (publish_event raised)
    sub_tasks,      \* execute_director's local list sub_tasks, as task ids
    stage_result,   \* execute_director's latest planner_result / impl_result /
                    \* test_result: the id of the child whose output it is
    prompt_of,      \* per task, what its prompt was built from: the caller's
                    \* text, the prompt of a task, or the output of a task
    early,          \* tasks whose resume request in the inbox was written while
                    \* no pause request for them was there
    release,        \* the wait_for_resume that returned in the current call:
                    \* the task, and whether its resume request was an early one
    \* ---- Part III: event log ----
    log_file,       \* /tmp/morgana/events.jsonl: [exists, text], text a sequence
                    \* of the pieces the operating system appended
    loggers,        \* per producer process: its MorganaEventLogger and the
                    \* pieces of the record it is writing that are still buffered
    log_op,         \* the most recent step on the log: "__init__", the name of
                    \* the logging call that started, or "write" for an append
    \* ---- Part IV: poll_once step by step ----
    step,           \* where the poller is inside poll_once: "idle", "process", "clear"
    command_data,   \* poll_once's local variable command_data
    polls,          \* poll_once calls started so far
    next_id,        \* write_command calls made so far; the k-th write has id k
    slot_id,        \* id of the write whose command is in the slot, or NoWrite
    data_id,        \* id of the write command_data was read from, or NoWrite
    applied_n,      \* per write id: how often _process_command applied its command
    lost,           \* ids of writes whose command was unlinked without being read
    poll_pre,       \* the state in which the current poll_once began
    last_write,     \* the latest write_command: its command, and whether a
                    \* checkpoint was then blocked in wait_while_paused
    \* ---- Part V: state callbacks ----
    callbacks,      \* MorganaCommandPoller.callbacks: state -> set of callbacks
    cb_run,         \* observation of the most recent poll_once of Part V
    \* ---- Part VI: ClaudeAgentExecutor.execute_agent ----
    ex_pc,          \* "idle" | "checkpoint" | "waiting" | "leaf"
    ex_pos,         \* which checkpoint: "pre" (line 173), "before" (124), "after" (130)
    ex_env,         \* "task": a Task function was detected; "mock": it was not
    ex_events,      \* task events logged by the current or latest call
    ex_result,      \* execution_mode returned by the latest call, "none" while it runs
    ex_leaf,        \* the current or latest call invoked the leaf executor
    ex_stopped,     \* the poller was STOPPED when the current or latest call began
    ex_calls,       \* execute_agent calls made
    \* ---- Part VII: the file mailbox of MorganaREPL ----
    mail,           \* per task file: where it is, whether a result file exists
    mail_order,     \* the task files by modification time, oldest first
    workers,        \* per worker process: its position in process_task
    executed,       \* per task file: how often the executor was invoked for it
    \* ---- Part VIII: text fields of task events ----
    ev_text,        \* the latest task event logged: its kind and the length of its text
    ev_stored,      \* the text field as stored in the event record
    \* ---- Part IX: write_command file operation by file operation ----
    wr,             \* the write_command call in progress, if any
    seen,           \* what the latest poll_once found in the slot
    \* ---- Part X: the rate limit of poll_once ----
    now,            \* the clock, in ticks
    last_poll_time, \* MorganaCommandPoller.last_poll_time
    threads,        \* per calling thread: its position in poll_once
    reads,          \* the slot reads so far: how many, when the last, the last gap
    \* ---- Part XI: execute_parallel ----
    par,            \* the execute_parallel call: its entries, its results, its status
    \* ---- Part XII: view_events(follow=True) ----
    view            \* the viewer: its position in the follow loop, last_position,
                    \* current_size, and the records it printed

pollVars == <<state, commands_file, pc, call, ret, waited, emitted, hist,
              written, tainted, expected, onScript>>
orchVars == <<tasks, execution_stack, opc, cur, stage, leaf, outcome,
              published, inbox, calls, fault, sub_tasks, stage_result, prompt_of,
              early, release>>
logVars == <<log_file, loggers, log_op>>
stepVars == <<step, command_data, polls, next_id, slot_id, data_id, applied_n, lost, poll_pre, last_write>>
cbVars == <<callbacks, cb_run>>
\* the variables of Parts V and later
execVars == <<ex_pc, ex_pos, ex_env, ex_events, ex_result, ex_leaf, ex_stopped, ex_calls>>
mailVars == <<mail, mail_order, workers, executed>>
textVars == <<ev_text, ev_stored>>
writeVars == <<wr, seen>>
rateVars == <<now, last_poll_time, threads, reads>>
parVars == <<par>>
viewVars == <<view>>
moreVars == <<cbVars, execVars, mailVars, textVars, writeVars, rateVars, parVars, viewVars>>
vars == <<pollVars, orchVars, logVars, stepVars, moreVars>>

(***************************************************************************)
(* Bounds                                                                  *)
(***************************************************************************)
MaxPending == 2     \* write_command calls between two polls
MaxTasks == 4       \* tasks in the registry
MaxInbox == 2       \* request files in the inbox at one time
MaxCalls == 2       \* execute_with_subagents calls the caller makes
MaxRecords == 2     \* logging calls of one producer process
MaxWrites == 3      \* write_command calls while the poller is followed step by step
MaxPolls == 3       \* poll_once calls followed step by step
MaxCallbacks == 2   \* callbacks registered with one poller at one time
MaxExec == 3        \* execute_agent calls
MaxTextLen == 1010  \* length of a prompt, output or error text
MaxTime == 6        \* clock ticks followed
MaxEntries == 2     \* entries of one execute_parallel call

(***************************************************************************)
(* Part I.  Command channel                                                *)
(***************************************************************************)
CommandType == {"pause", "resume", "stop", "status"}
ExecutionState == {"running", "paused", "stopped"}

None == "None"

\* A JSON document as json.loads sees it.
\*   object    a non-empty JSON object; command is its "command" entry
\*             (None when the key is missing)
\*   falsy     valid JSON whose Python value is falsy: {}, [], 0, "", null
\*   nonobject valid JSON, truthy, not an object: [1], "x", 5
\*   invalid   non-blank text that json.loads rejects
Obj(c) == [json |-> "object", command |-> c]
FalsyDoc == [json |-> "falsy", command |-> None]
NonObjectDoc == [json |-> "nonobject", command |-> None]
InvalidDoc == [json |-> "invalid", command |-> None]
NoData == [json |-> "none", command |-> None]

\* What write_command can be asked to write: the four kinds and an unknown one.
WriteInputs == CommandType \cup {"bogus"}
\* What another writer can leave in the slot.
ExternalDocs == {Obj(None), FalsyDoc, NonObjectDoc, InvalidDoc}

NoFile == [exists |-> FALSE, text |-> <<>>]

NoPoll == [polled |-> FALSE, inWait |-> FALSE, pre |-> "running", raw |-> "absent", n |-> 0,
           first |-> None, last |-> None, tainted |-> FALSE, prevOne |-> FALSE,
           data |-> NoData, applied |-> <<>>, events |-> <<>>, ret |-> "none"]

\* open(commands_file, 'w'); json.dump(command_data, f): the file is replaced.
WriteFileAppend(f, doc) == [exists |-> TRUE, text |-> Append(f.text, doc)]
WriteFile(f, doc) == [exists |-> TRUE, text |-> <<doc>>]

\* What the slot holds, as _read_commands meets it: no file, a blank file
\* (empty after strip), text json.loads rejects, or one JSON document.
RawKind(f) ==
    IF ~f.exists THEN "absent"
    ELSE IF f.text = <<>> THEN "blank"
    ELSE IF Len(f.text) > 1 \/ f.text[1].json = "invalid" THEN "invalid"
    ELSE "json"

\* _read_commands: the parsed document, or NoData, and the events it logs.
ReadCommandsSilent(f) ==
    IF ~f.exists \/ f.text = <<>> \/ Len(f.text) > 1 \/ f.text[1].json = "invalid"
    THEN [data |-> NoData, events |-> <<>>]
    ELSE [data |-> f.text[1], events |-> <<>>]
ReadCommands(f) ==
    IF ~f.exists THEN [data |-> NoData, events |-> <<>>]
    ELSE IF f.text = <<>> THEN [data |-> NoData, events |-> <<>>]
    ELSE IF Len(f.text) > 1 \/ f.text[1].json = "invalid"
         THEN [data |-> NoData, events |-> <<"command_read_error">>]
    ELSE [data |-> f.text[1], events |-> <<>>]

\* `if command_data:` in poll_once
Truthy(data) == data.json \in {"object", "nonobject"}

\* _clear_commands
ClearCommandsKeep(f) == f
ClearCommands(f) == IF f.exists THEN NoFile ELSE f

\* The state assignments of _process_command under state_lock.
NewStateResumeAlways(st, cmd) ==
    IF cmd = "pause" /\ st = "running" THEN "paused"
    ELSE IF cmd = "resume" THEN "running"
    ELSE IF cmd = "stop" THEN "stopped"
    ELSE st
NewState(st, cmd) ==
    IF cmd = "pause" /\ st = "running" THEN "paused"
    ELSE IF cmd = "resume" /\ st = "paused" THEN "running"
    ELSE IF cmd = "stop" THEN "stopped"
    ELSE st

\* _process_command(command_data) in state st.
ProcessCommand(st, data) ==
    IF data.json # "object"
    THEN \* command_data.get: AttributeError
         [state |-> st, raised |-> TRUE, applied |-> <<>>, events |-> <<>>]
    ELSE IF data.command \in {None, ""}
    THEN [state |-> st, raised |-> FALSE, applied |-> <<>>, events |-> <<>>]
    ELSE IF data.command \notin CommandType
    THEN [state |-> st, raised |-> FALSE, applied |-> <<>>,
          events |-> <<"invalid_command">>]
    ELSE IF data.command = "status"
    THEN [state |-> st, raised |-> FALSE, applied |-> <<data.command>>,
          events |-> <<"status_request">>]
    ELSE [state |-> NewState(st, data.command), raised |-> FALSE,
          applied |-> <<data.command>>,
          events |-> IF NewState(st, data.command) # st
                     THEN <<"state_changed">> ELSE <<>>]

\* poll_once in state st on slot f: read, process, clear, report.
PollOnceResult(st, f) ==
    LET r == ReadCommands(f) IN
    IF Truthy(r.data)
    THEN LET p == ProcessCommand(st, r.data) IN
         IF p.raised
         THEN [state |-> st, file |-> f, ret |-> "raised", data |-> r.data,
               applied |-> p.applied, events |-> r.events \o p.events]
         ELSE [state |-> p.state, file |-> ClearCommands(f),
               ret |-> IF p.state # "stopped" THEN "True" ELSE "False",
               data |-> r.data, applied |-> p.applied,
               events |-> r.events \o p.events]
    ELSE [state |-> st, file |-> f,
          ret |-> IF st # "stopped" THEN "True" ELSE "False",
          data |-> r.data, applied |-> <<>>, events |-> r.events]

\* The branches of integration_check_point after its poll_once.
CheckPointDecisionIgnoreStop(pollRet, st) ==
    IF pollRet = "raised" THEN "raised"
    ELSE IF st = "paused" THEN "wait"
    ELSE "True"
CheckPointDecision(pollRet, st) ==
    IF pollRet = "raised" THEN "raised"
    ELSE IF pollRet = "False" THEN "False"
    ELSE IF st = "paused" THEN "wait"
    ELSE "True"

\* One pass of wait_while_paused in state st on slot f: either an iteration of
\* its loop (should_pause, should_stop, poll_once, sleep) or the loop's exit.
\* ret "pending" means the loop goes round again.
NoPollResult(st, f) ==
    [state |-> st, file |-> f, ret |-> "none", data |-> NoData,
     applied |-> <<>>, events |-> <<>>]
WaitPassIgnorePoll(st, f) ==
    IF st = "paused"
    THEN [polled |-> TRUE, r |-> PollOnceResult(st, f),
          ret |-> IF PollOnceResult(st, f).ret = "raised" THEN "raised" ELSE "pending"]
    ELSE [polled |-> FALSE, r |-> NoPollResult(st, f),
          ret |-> IF st # "stopped" THEN "True" ELSE "False"]
WaitPass(st, f) ==
    IF st = "paused"
    THEN IF st = "stopped"
         THEN [polled |-> FALSE, r |-> NoPollResult(st, f), ret |-> "False"]
         ELSE [polled |-> TRUE, r |-> PollOnceResult(st, f),
               ret |-> IF PollOnceResult(st, f).ret = "raised" THEN "raised"
                       ELSE IF PollOnceResult(st, f).ret = "False" THEN "False"
                       ELSE "pending"]
    ELSE [polled |-> FALSE, r |-> NoPollResult(st, f),
          ret |-> IF st # "stopped" THEN "True" ELSE "False"]

\* The transition rules of the command channel, as a table.
TransitionTable ==
    [s \in ExecutionState |-> [c \in CommandType |->
        CASE c = "pause"  -> (IF s = "running" THEN "paused" ELSE s)
          [] c = "resume" -> (IF s = "paused" THEN "running" ELSE s)
          [] c = "stop"   -> "stopped"
          [] c = "status" -> s]]

\* ---- observation of a poll_once execution ----
ScriptStep == onScript /\ ~tainted /\ Len(written) = 1 /\ written[1] \in CommandType

RecordPoll(r, inWait) ==
    [polled |-> TRUE, inWait |-> inWait, pre |-> state,
     raw |-> RawKind(commands_file), n |-> Len(written),
     first |-> IF Len(written) < 2 THEN None ELSE written[1],
     last |-> IF written = <<>> THEN None ELSE written[Len(written)],
     tainted |-> tainted,
     prevOne |-> hist.polled /\ hist.n = 1 /\ ~hist.tainted /\ hist.last \in CommandType,
     data |-> r.data, applied |-> r.applied, events |-> r.events, ret |-> r.ret]

\* The effects of one poll_once execution with result r.
Polled(r, inWait) ==
    /\ state' = r.state
    /\ commands_file' = r.file
    /\ hist' = RecordPoll(r, inWait)
    /\ written' = <<>>
    /\ tainted' = FALSE
    /\ onScript' = ScriptStep
    /\ expected' = IF ScriptStep THEN TransitionTable[expected][written[1]]
                   ELSE "running"

\* ---- controller ----
\* write_command(command): replace the slot by {"command": command, ...}
WriteCommand(c) ==
    /\ ~tainted => Len(written) < MaxPending
    /\ commands_file' = WriteFile(commands_file, Obj(c))
    /\ written' = IF tainted THEN written ELSE Append(written, c)
    /\ UNCHANGED <<state, pc, call, ret, waited, emitted, hist, tainted,
                   expected, onScript>>
    /\ UNCHANGED orchVars
    /\ UNCHANGED logVars
    /\ UNCHANGED stepVars
    /\ UNCHANGED moreVars

\* Another writer replaces the slot by a document write_command never writes.
ExternalWrite(doc) ==
    /\ commands_file' = [exists |-> TRUE, text |-> <<doc>>]
    /\ tainted' = TRUE
    /\ written' = <<>>
    /\ UNCHANGED <<state, pc, call, ret, waited, emitted, hist,
                   expected, onScript>>
    /\ UNCHANGED orchVars
    /\ UNCHANGED logVars
    /\ UNCHANGED stepVars
    /\ UNCHANGED moreVars

\* Another writer leaves the slot blank (an empty or whitespace-only file).
ExternalBlank ==
    /\ commands_file' = [exists |-> TRUE, text |-> <<>>]
    /\ tainted' = TRUE
    /\ written' = <<>>
    /\ UNCHANGED <<state, pc, call, ret, waited, emitted, hist,
                   expected, onScript>>
    /\ UNCHANGED orchVars
    /\ UNCHANGED logVars
    /\ UNCHANGED stepVars
    /\ UNCHANGED moreVars

\* ---- worker ----
\* a direct call of poll_once
PollOnce ==
    /\ pc = "idle"
    /\ LET r == PollOnceResult(state, commands_file) IN
        /\ Polled(r, FALSE)
        /\ call' = "poll_once"
        /\ ret' = r.ret
    /\ waited' = FALSE
    /\ emitted' = <<>>
    /\ UNCHANGED pc
    /\ UNCHANGED orchVars
    /\ UNCHANGED logVars
    /\ UNCHANGED stepVars
    /\ UNCHANGED moreVars

\* integration_check_point up to its return or its entry into wait_while_paused
IntegrationCheckPoint ==
    /\ pc = "idle"
    /\ LET r == PollOnceResult(state, commands_file)
           d == CheckPointDecision(r.ret, r.state) IN
        /\ Polled(r, FALSE)
        /\ call' = "integration_check_point"
        /\ pc' = IF d = "wait" THEN "waiting" ELSE "idle"
        /\ ret' = IF d = "wait" THEN "pending" ELSE d
        /\ waited' = (d = "wait")
        /\ emitted' = IF d = "wait" THEN <<"execution_paused">> ELSE <<>>
    /\ UNCHANGED orchVars
    /\ UNCHANGED logVars
    /\ UNCHANGED stepVars
    /\ UNCHANGED moreVars

\* one pass of wait_while_paused inside integration_check_point
WaitWhilePaused ==
    /\ pc = "waiting"
    /\ LET w == WaitPass(state, commands_file) IN
        /\ IF w.polled
           THEN Polled(w.r, TRUE)
           ELSE UNCHANGED <<state, commands_file, hist, written, tainted,
                            expected, onScript>>
        /\ pc' = IF w.ret = "pending" THEN "waiting" ELSE "idle"
        /\ ret' = w.ret
        /\ emitted' = IF w.ret = "True" THEN Append(emitted, "execution_resumed")
                      ELSE emitted
    /\ UNCHANGED <<call, waited>>
    /\ UNCHANGED orchVars
    /\ UNCHANGED logVars
    /\ UNCHANGED stepVars
    /\ UNCHANGED moreVars

(***************************************************************************)
(* Part II.  Orchestrator                                                  *)
(*                                                                         *)
(* Task ids are the positions 1, 2, ... in the registry: create_sub_agent  *)
(* draws a fresh uuid for every task.                                      *)
(***************************************************************************)
\* parent_id = None
NoId == 0

\* a parent_id that names no task of the registry
UnknownId == -1

AgentState == {"pending", "running", "waiting", "paused", "completed", "failed"}
DirectorTypes == {"morgana-director", "orchestrator"}
\* the sub-agents execute_director spawns, in order
StageTypes == <<"sprint-planner", "code-implementer", "test-specialist">>
\* agent types the caller creates tasks with
CallerTypes == {"morgana-director", "code-implementer"}

\* SubAgentTask(...) as create_sub_agent builds it
NewTask(agent_type, parent_id) ==
    [parent_id |-> parent_id, agent_type |-> agent_type, state |-> "pending",
     result |-> None, children |-> <<>>]

\* create_sub_agent up to its publish_event: the registry with the new task
RegisterNoLink(ts, agent_type, parent_id) ==
    Append(ts, NewTask(agent_type, parent_id))
Register(ts, agent_type, parent_id) ==
    LET id == Len(ts) + 1
        added == Append(ts, NewTask(agent_type, parent_id))
    IN  IF parent_id # NoId /\ parent_id \in 1..Len(ts)
        THEN [added EXCEPT ![parent_id].children = Append(@, id)]
        ELSE added

\* prompt=... of a task: the text the caller passed, f"...{task.prompt}" or
\* f"...{result.get('output', '')}"
Given == [kind |-> "given", of |-> NoId]
PromptOf(id) == [kind |-> "prompt", of |-> id]
OutputOf(id) == [kind |-> "output", of |-> id]
\* the prompt execute_director builds for the sub-agent of stage n of director
\* d, holding the result of child r
StagePrompt(n, d, r) == IF n = 1 THEN PromptOf(d) ELSE OutputOf(r)
\* the children of t whose prompt the caller passed
GivenChildren(t) ==
    {i \in 1..Len(tasks[t].children) : prompt_of[tasks[t].children[i]] = Given}

\* no wait_for_resume has returned in this call
NoRelease == [task |-> NoId, early |-> FALSE]

\* execution_stack.pop()
Pop(stack) == SubSeq(stack, 1, Len(stack) - 1)

Event(type, id) == <<type, id>>

\* ---- caller ----
\* create_sub_agent(agent_type, prompt, parent_id); publish_event may raise
CreateSubAgent(agent_type, parent_id, pub_ok) ==
    /\ opc = "idle"
    /\ Len(tasks) < MaxTasks
    /\ tasks' = Register(tasks, agent_type, parent_id)
    /\ published' = IF pub_ok THEN <<Event("agent_created", Len(tasks) + 1)>> ELSE <<>>
    /\ outcome' = IF pub_ok THEN "returned" ELSE "raised"
    /\ UNCHANGED <<execution_stack, opc, cur, stage, leaf, inbox>>
    /\ UNCHANGED calls
    /\ UNCHANGED <<early, release>>
    /\ prompt_of' = Append(prompt_of, Given)
    /\ UNCHANGED <<sub_tasks, stage_result>>
    /\ fault' = IF pub_ok THEN "none" ELSE "publish"
    /\ UNCHANGED pollVars
    /\ UNCHANGED logVars
    /\ UNCHANGED stepVars
    /\ UNCHANGED moreVars

\* execute_with_subagents(task) up to the try block: RUNNING, push, publish
ExecuteWithSubagents(t, pub_ok) ==
    /\ opc = "idle"
    /\ t \in 1..Len(tasks)
    /\ tasks[t].parent_id = NoId
    /\ calls < MaxCalls
    /\ calls' = calls + 1
    \* room for the sub-agents; the children the caller gave t are not counted
    /\ tasks[t].agent_type \in DirectorTypes =>
           Len(tasks) - Cardinality(GivenChildren(t)) + Len(StageTypes) <= MaxTasks
    /\ tasks' = [tasks EXCEPT ![t].state = "running"]
    /\ execution_stack' = Append(execution_stack, t)
    /\ IF pub_ok
       THEN /\ published' = <<Event("agent_started", t)>>
            /\ cur' = t
            /\ outcome' = "pending"
            /\ IF tasks[t].agent_type \in DirectorTypes
               THEN opc' = "director" /\ stage' = 1 /\ leaf' = NoId
               ELSE opc' = "agent" /\ stage' = 0 /\ leaf' = t
       ELSE /\ published' = <<>>
            /\ outcome' = "raised"
            /\ UNCHANGED <<opc, cur, stage, leaf>>
    /\ UNCHANGED inbox
    /\ sub_tasks' = <<>>
    /\ stage_result' = NoId
    /\ UNCHANGED prompt_of
    /\ release' = NoRelease
    /\ UNCHANGED early
    /\ fault' = IF pub_ok THEN "none" ELSE "publish"
    /\ UNCHANGED pollVars
    /\ UNCHANGED logVars
    /\ UNCHANGED stepVars
    /\ UNCHANGED moreVars

\* pause_agent(task_id), resume_agent(task_id).  Nothing reads a request
\* before execute_agent is at the pause check of that task, or waits for its
\* resume: requests are delivered there.
PauseAgent(t) ==
    /\ opc \in {"agent", "wait_for_resume"} /\ t = leaf
    /\ Cardinality(inbox \cup {<<"pause", t>>}) <= MaxInbox
    /\ inbox' = inbox \cup {<<"pause", t>>}
    /\ UNCHANGED <<tasks, execution_stack, opc, cur, stage, leaf, outcome, published>>
    /\ UNCHANGED calls
    /\ UNCHANGED <<early, release>>
    /\ UNCHANGED <<sub_tasks, stage_result, prompt_of>>
    /\ UNCHANGED fault
    /\ UNCHANGED pollVars
    /\ UNCHANGED logVars
    /\ UNCHANGED stepVars
    /\ UNCHANGED moreVars
ResumeAgent(t) ==
    /\ opc \in {"agent", "wait_for_resume"} /\ t = leaf
    /\ Cardinality(inbox \cup {<<"resume", t>>}) <= MaxInbox
    /\ inbox' = inbox \cup {<<"resume", t>>}
    /\ UNCHANGED <<tasks, execution_stack, opc, cur, stage, leaf, outcome, published>>
    /\ UNCHANGED calls
    /\ early' = IF <<"pause", t>> \in inbox THEN early \ {t} ELSE early \cup {t}
    /\ UNCHANGED release
    /\ UNCHANGED <<sub_tasks, stage_result, prompt_of>>
    /\ UNCHANGED fault
    /\ UNCHANGED pollVars
    /\ UNCHANGED logVars
    /\ UNCHANGED stepVars
    /\ UNCHANGED moreVars

\* ---- inside execute_with_subagents ----
\* execute_director: create the sub-agent of the current stage
DirectorCreate(pub_ok) ==
    /\ opc = "director"
    /\ tasks' = Register(tasks, StageTypes[stage], cur)
    /\ IF pub_ok
       THEN /\ published' = Append(published, Event("agent_created", Len(tasks) + 1))
            /\ leaf' = Len(tasks) + 1
            /\ opc' = "agent"
       ELSE /\ opc' = "except"
            /\ UNCHANGED <<published, leaf>>
    /\ UNCHANGED <<execution_stack, cur, stage, outcome, inbox>>
    /\ UNCHANGED calls
    /\ UNCHANGED <<early, release>>
    \* sub_tasks.append after create_sub_agent returned
    /\ prompt_of' = Append(prompt_of, StagePrompt(stage, cur, stage_result))
    /\ sub_tasks' = IF pub_ok THEN Append(sub_tasks, Len(tasks) + 1) ELSE sub_tasks
    /\ UNCHANGED stage_result
    /\ fault' = IF pub_ok THEN fault ELSE "publish"
    /\ UNCHANGED pollVars
    /\ UNCHANGED logVars
    /\ UNCHANGED stepVars
    /\ UNCHANGED moreVars

\* execute_agent: the pause check
CheckPause(pub_ok) ==
    /\ opc = "agent"
    /\ IF <<"pause", leaf>> \in inbox
       THEN /\ tasks' = [tasks EXCEPT ![leaf].state = "paused"]
            /\ IF pub_ok
               THEN /\ published' = Append(published, Event("agent_paused", leaf))
                    /\ opc' = "wait_for_resume"
               ELSE /\ opc' = "except"
                    /\ UNCHANGED published
       ELSE /\ opc' = "run"
            /\ UNCHANGED <<tasks, published>>
    /\ UNCHANGED <<execution_stack, cur, stage, leaf, outcome, inbox>>
    /\ UNCHANGED calls
    /\ UNCHANGED <<early, release>>
    /\ UNCHANGED <<sub_tasks, stage_result, prompt_of>>
    /\ fault' = IF <<"pause", leaf>> \in inbox /\ ~pub_ok THEN "publish" ELSE fault
    /\ UNCHANGED pollVars
    /\ UNCHANGED logVars
    /\ UNCHANGED stepVars
    /\ UNCHANGED moreVars

\* wait_for_resume once the resume file exists, and task.state = RUNNING
WaitForResume ==
    /\ opc = "wait_for_resume"
    /\ <<"resume", leaf>> \in inbox
    /\ inbox' = inbox \ {<<"pause", leaf>>, <<"resume", leaf>>}
    /\ tasks' = [tasks EXCEPT ![leaf].state = "running"]
    /\ opc' = "run"
    /\ UNCHANGED <<execution_stack, cur, stage, leaf, outcome, published>>
    /\ UNCHANGED calls
    /\ release' = [task |-> leaf, early |-> leaf \in early]
    /\ early' = early \ {leaf}
    /\ UNCHANGED <<sub_tasks, stage_result, prompt_of>>
    /\ UNCHANGED fault
    /\ UNCHANGED pollVars
    /\ UNCHANGED logVars
    /\ UNCHANGED stepVars
    /\ UNCHANGED moreVars

\* execute_agent: user input, prompt and the Task call, which returns or raises;
\* then the caller's next step
RunAgentContinue(ok) ==
    /\ opc = "run"
    /\ IF stage = 0 \/ stage = Len(StageTypes)
       THEN opc' = "complete" /\ UNCHANGED stage
       ELSE opc' = "director" /\ stage' = stage + 1
    /\ UNCHANGED <<tasks, execution_stack, cur, leaf, outcome, published, inbox>>
    /\ UNCHANGED calls
    /\ UNCHANGED <<early, release>>
    /\ stage_result' = IF ok /\ stage # 0 THEN leaf ELSE stage_result
    /\ UNCHANGED <<sub_tasks, prompt_of>>
    /\ fault' = IF ok THEN fault ELSE "work"
    /\ UNCHANGED pollVars
    /\ UNCHANGED logVars
    /\ UNCHANGED stepVars
    /\ UNCHANGED moreVars
RunAgent(ok) ==
    /\ opc = "run"
    /\ IF ~ok THEN opc' = "except" /\ UNCHANGED stage
       ELSE IF stage = 0 \/ stage = Len(StageTypes)
            THEN opc' = "complete" /\ UNCHANGED stage
            ELSE opc' = "director" /\ stage' = stage + 1
    /\ UNCHANGED <<tasks, execution_stack, cur, leaf, outcome, published, inbox>>
    /\ UNCHANGED calls
    /\ UNCHANGED <<early, release>>
    /\ stage_result' = IF ok /\ stage # 0 THEN leaf ELSE stage_result
    /\ UNCHANGED <<sub_tasks, prompt_of>>
    /\ fault' = IF ok THEN fault ELSE "work"
    /\ UNCHANGED pollVars
    /\ UNCHANGED logVars
    /\ UNCHANGED stepVars
    /\ UNCHANGED moreVars

\* task.state = COMPLETED; task.result = result
Complete ==
    /\ opc = "complete"
    /\ tasks' = [tasks EXCEPT ![cur].state = "completed",
                              ![cur].result = IF stage = 0 THEN "output" ELSE "aggregate"]
    /\ opc' = "publish_completed"
    /\ UNCHANGED <<execution_stack, cur, stage, leaf, outcome, published, inbox>>
    /\ UNCHANGED calls
    /\ UNCHANGED <<early, release>>
    /\ UNCHANGED <<sub_tasks, stage_result, prompt_of>>
    /\ UNCHANGED fault
    /\ UNCHANGED pollVars
    /\ UNCHANGED logVars
    /\ UNCHANGED stepVars
    /\ UNCHANGED moreVars

\* the agent_completed event, and return result
PublishCompleted(pub_ok) ==
    /\ opc = "publish_completed"
    /\ IF pub_ok
       THEN /\ published' = Append(published, Event("agent_completed", cur))
            /\ outcome' = "returned"
            /\ opc' = "finally"
       ELSE /\ opc' = "except"
            /\ UNCHANGED <<published, outcome>>
    /\ UNCHANGED <<tasks, execution_stack, cur, stage, leaf, inbox>>
    /\ UNCHANGED calls
    /\ UNCHANGED <<early, release>>
    /\ UNCHANGED <<sub_tasks, stage_result, prompt_of>>
    /\ fault' = IF pub_ok THEN fault ELSE "publish"
    /\ UNCHANGED pollVars
    /\ UNCHANGED logVars
    /\ UNCHANGED stepVars
    /\ UNCHANGED moreVars

\* except Exception: FAILED, the error as result, the agent_failed event, raise
ExceptSwallow(pub_ok) ==
    /\ opc = "except"
    /\ tasks' = [tasks EXCEPT ![cur].state = "failed", ![cur].result = "error"]
    /\ published' = IF pub_ok THEN Append(published, Event("agent_failed", cur))
                    ELSE published
    /\ outcome' = "returned"
    /\ opc' = "finally"
    /\ UNCHANGED <<execution_stack, cur, stage, leaf, inbox>>
    /\ UNCHANGED calls
    /\ UNCHANGED <<early, release>>
    /\ UNCHANGED <<sub_tasks, stage_result, prompt_of>>
    /\ fault' = IF pub_ok THEN fault ELSE "publish"
    /\ UNCHANGED pollVars
    /\ UNCHANGED logVars
    /\ UNCHANGED stepVars
    /\ UNCHANGED moreVars
Except(pub_ok) ==
    /\ opc = "except"
    /\ tasks' = [tasks EXCEPT ![cur].state = "failed", ![cur].result = "error"]
    /\ published' = IF pub_ok THEN Append(published, Event("agent_failed", cur))
                    ELSE published
    /\ outcome' = "raised"
    /\ opc' = "finally"
    /\ UNCHANGED <<execution_stack, cur, stage, leaf, inbox>>
    /\ UNCHANGED calls
    /\ UNCHANGED <<early, release>>
    /\ UNCHANGED <<sub_tasks, stage_result, prompt_of>>
    /\ fault' = IF pub_ok THEN fault ELSE "publish"
    /\ UNCHANGED pollVars
    /\ UNCHANGED logVars
    /\ UNCHANGED stepVars
    /\ UNCHANGED moreVars

\* finally: execution_stack.pop()
Finally ==
    /\ opc = "finally"
    /\ execution_stack' = Pop(execution_stack)
    /\ opc' = "idle"
    /\ cur' = NoId
    /\ leaf' = NoId
    /\ stage' = 0
    /\ UNCHANGED <<tasks, outcome, published, inbox>>
    /\ UNCHANGED calls
    /\ UNCHANGED <<early, release>>
    /\ UNCHANGED <<sub_tasks, stage_result, prompt_of>>
    /\ UNCHANGED fault
    /\ UNCHANGED pollVars
    /\ UNCHANGED logVars
    /\ UNCHANGED stepVars
    /\ UNCHANGED moreVars

OrchNext ==
    \/ \E a \in CallerTypes, ok \in BOOLEAN : CreateSubAgent(a, NoId, ok)
    \/ \E t \in 1..Len(tasks), ok \in BOOLEAN : ExecuteWithSubagents(t, ok)
    \/ \E t \in 1..Len(tasks) : PauseAgent(t)
    \/ \E t \in 1..Len(tasks) : ResumeAgent(t)
    \/ \E ok \in BOOLEAN : DirectorCreate(ok)
    \/ \E ok \in BOOLEAN : CheckPause(ok)
    \/ WaitForResume
    \/ \E ok \in BOOLEAN : RunAgent(ok)
    \/ Complete
    \/ \E ok \in BOOLEAN : PublishCompleted(ok)
    \/ \E ok \in BOOLEAN : Except(ok)
    \/ Finally

\* the orchestrator with a caller that also creates tasks under a registered
\* parent: create_sub_agent(agent_type, prompt, parent_id=task.id)
DirectorNext ==
    \/ OrchNext
    \/ \E p \in 1..Len(tasks) : CreateSubAgent("code-implementer", p, TRUE)

(***************************************************************************)
(* Part III.  Event log                                                    *)
(*                                                                         *)
(* _write_event opens the log with mode "a" and hands the record to a      *)
(* buffered text file piece by piece (json.dump, then the newline).  What  *)
(* reaches the file is what the buffer passes to the operating system: one *)
(* append when the whole record fits the buffer, and otherwise an append   *)
(* each time the buffer fills and a last one at flush().  Each such append *)
(* lands at the end of the file as one piece.                              *)
(***************************************************************************)
Producers == {"p1", "p2"}
LogOps == {"log_agent_event", "task_started", "task_progress", "task_completed",
           "task_failed"}
\* a record that fits the file buffer, or one that does not
RecordSizes == {"small", "large"}
\* the appends that write a record of that size
Appends(size) == IF size = "small" THEN 1 ELSE 2

\* the pieces of record n of producer p
Pieces(p, n, size) ==
    [i \in 1..Appends(size) |-> [p |-> p, n |-> n, part |-> i, of |-> Appends(size)]]

NoLogFile == [exists |-> FALSE, text |-> <<>>]
NoLogger == [made |-> FALSE, n |-> 0, pending |-> <<>>]

\* __init__: touch the log file if it does not exist
InitLogFileTruncate(f) == [exists |-> TRUE, text |-> <<>>]
InitLogFile(f) == IF ~f.exists THEN [exists |-> TRUE, text |-> <<>>] ELSE f

\* open(self.log_file, "a")
OpenAppend(f) == [exists |-> TRUE, text |-> f.text]

\* MorganaEventLogger(log_file) in process p
NewLogger(p) ==
    /\ loggers[p].pending = <<>>
    /\ loggers' = [loggers EXCEPT ![p].made = TRUE]
    /\ log_file' = InitLogFile(log_file)
    /\ log_op' = "__init__"
    /\ UNCHANGED pollVars
    /\ UNCHANGED orchVars
    /\ UNCHANGED stepVars
    /\ UNCHANGED moreVars

\* a logging call of process p up to the first append: the event is built,
\* the file opened for append and the record handed to the buffered file
WriteEvent(p, op, size) ==
    /\ loggers[p].made
    /\ loggers[p].pending = <<>>
    /\ loggers[p].n < MaxRecords
    /\ loggers' = [loggers EXCEPT ![p].n = @ + 1,
                                  ![p].pending = Pieces(p, loggers[p].n + 1, size)]
    /\ log_file' = OpenAppend(log_file)
    /\ log_op' = op
    /\ UNCHANGED pollVars
    /\ UNCHANGED orchVars
    /\ UNCHANGED stepVars
    /\ UNCHANGED moreVars

\* the buffered file of process p passes its next piece to the operating system
FlushPiece(p) ==
    /\ loggers[p].pending # <<>>
    /\ log_file' = [log_file EXCEPT !.text = Append(@, Head(loggers[p].pending))]
    /\ loggers' = [loggers EXCEPT ![p].pending = Tail(@)]
    /\ log_op' = "write"
    /\ UNCHANGED pollVars
    /\ UNCHANGED orchVars
    /\ UNCHANGED stepVars
    /\ UNCHANGED moreVars

LogNext ==
    \/ \E p \in Producers : NewLogger(p)
    \/ \E p \in Producers, op \in LogOps, size \in RecordSizes : WriteEvent(p, op, size)
    \/ \E p \in Producers : FlushPiece(p)

LogInit ==
    /\ log_file = NoLogFile
    /\ loggers = [p \in Producers |-> NoLogger]
    /\ log_op = "none"

(***************************************************************************)
(* Part IV.  poll_once step by step                                        *)
(*                                                                         *)
(* The controller is another process: write_command can run between any    *)
(* two of the steps of poll_once (read, process, clear).  The unlink of    *)
(* _clear_commands can fail with OSError, which the code logs and ignores. *)
(***************************************************************************)
\* no write: the slot is empty, or command_data holds nothing
NoWrite == 0

\* a checkpoint of the worker is blocked in wait_while_paused: the state is
\* PAUSED and the poll_once under way, if any, is one of the wait loop
Waiting == state = "paused" /\ (step = "idle" \/ poll_pre = "paused")

\* write_command(c) by the controller
StepWrite(c) ==
    /\ next_id < MaxWrites
    /\ next_id' = next_id + 1
    /\ commands_file' = WriteFile(commands_file, Obj(c))
    /\ slot_id' = next_id + 1
    /\ last_write' = [cmd |-> c, waiting |-> Waiting]
    /\ UNCHANGED <<step, command_data, polls, data_id, applied_n, lost, poll_pre>>
    /\ UNCHANGED <<state, pc, call, ret, waited, emitted, hist, written, tainted,
                   expected, onScript>>
    /\ UNCHANGED orchVars
    /\ UNCHANGED logVars
    /\ UNCHANGED moreVars

\* poll_once: command_data = self._read_commands(); without data it returns
PollRead ==
    /\ step = "idle"
    /\ polls < MaxPolls
    /\ polls' = polls + 1
    /\ poll_pre' = state
    /\ LET r == ReadCommands(commands_file) IN
        /\ command_data' = r.data
        /\ data_id' = IF Truthy(r.data) THEN slot_id ELSE NoWrite
        /\ step' = IF Truthy(r.data) THEN "process" ELSE "idle"
    /\ UNCHANGED <<next_id, slot_id, applied_n, lost, last_write>>
    /\ UNCHANGED pollVars
    /\ UNCHANGED orchVars
    /\ UNCHANGED logVars
    /\ UNCHANGED moreVars

\* poll_once: self._process_command(command_data)
PollProcess ==
    /\ step = "process"
    /\ LET p == ProcessCommand(state, command_data) IN
        /\ state' = p.state
        /\ applied_n' = IF p.applied # <<>>
                        THEN [applied_n EXCEPT ![data_id] = @ + 1] ELSE applied_n
        /\ step' = IF p.raised THEN "idle" ELSE "clear"
    /\ UNCHANGED <<command_data, polls, next_id, slot_id, data_id, lost, poll_pre, last_write>>
    /\ UNCHANGED <<commands_file, pc, call, ret, waited, emitted, hist, written,
                   tainted, expected, onScript>>
    /\ UNCHANGED orchVars
    /\ UNCHANGED logVars
    /\ UNCHANGED moreVars

\* poll_once: self._clear_commands(), whose unlink succeeds or raises OSError,
\* and the return
PollClear(unlink_ok) ==
    /\ step = "clear"
    /\ unlink_ok \/ commands_file.exists
    /\ IF unlink_ok
       THEN /\ commands_file' = ClearCommands(commands_file)
            /\ slot_id' = NoWrite
            /\ lost' = IF commands_file.exists /\ slot_id # data_id
                       THEN lost \cup {slot_id} ELSE lost
       ELSE UNCHANGED <<commands_file, slot_id, lost>>
    /\ step' = "idle"
    /\ command_data' = NoData
    /\ data_id' = NoWrite
    /\ UNCHANGED <<polls, next_id, applied_n, poll_pre, last_write>>
    /\ UNCHANGED <<state, pc, call, ret, waited, emitted, hist, written, tainted,
                   expected, onScript>>
    /\ UNCHANGED orchVars
    /\ UNCHANGED logVars
    /\ UNCHANGED moreVars

StepNext ==
    \/ \E c \in CommandType : StepWrite(c)
    \/ PollRead
    \/ PollProcess
    \/ \E ok \in BOOLEAN : PollClear(ok)

StepInit ==
    /\ step = "idle"
    /\ command_data = NoData
    /\ polls = 0
    /\ next_id = 0
    /\ slot_id = NoWrite
    /\ data_id = NoWrite
    /\ applied_n = [w \in 1..MaxWrites |-> 0]
    /\ lost = {}
    /\ poll_pre = "running"
    /\ last_write = [cmd |-> None, waiting |-> FALSE]

(***************************************************************************)
(* Part V.  State callbacks                                                *)
(*                                                                         *)
(* _process_command runs the callbacks registered for the new state inside *)
(* `with self.state_lock`, and state_lock is a threading.Lock: a thread    *)
(* that holds it and acquires it again blocks for ever.                    *)
(***************************************************************************)
\* callbacks a component can register: one that returns, one that raises an
\* Exception, one that calls a state query of the same poller (get_state,
\* should_pause, should_stop, is_running)
CallbackFns == {"cb_a", "cb_raise", "cb_query"}
Behaviour(cb) ==
    IF cb = "cb_raise" THEN "raises"
    ELSE IF cb = "cb_query" THEN "queries"
    ELSE "returns"

NoCallbacks == [s \in ExecutionState |-> {}]
NoRun == [polled |-> FALSE, pre |-> "running", post |-> "running", data |-> NoData,
          regs |-> {}, invoked |-> <<>>, events |-> <<>>, ret |-> "none"]

\* the orders in which `for callback in <set>` can visit the set S
Orders(S) == {o \in [1..Cardinality(S) -> S] : \A i, j \in 1..Cardinality(S) : i # j => o[i] # o[j]}

\* the callbacks loop of _process_command, visiting the callbacks in the
\* given order: the calls made, the events logged, and whether a call blocked
InvokeCallbacks(order, old, new) ==
    LET blockAt == {i \in 1..Len(order) : Behaviour(order[i]) = "queries"}
        last == IF blockAt = {} THEN Len(order)
                ELSE CHOOSE i \in blockAt : \A j \in blockAt : i <= j
        errors == SelectSeq(SubSeq(order, 1, last), LAMBDA cb : Behaviour(cb) = "raises")
    IN  [invoked |-> [i \in 1..last |-> <<order[i], old, new>>],
         events |-> [i \in 1..Len(errors) |-> "callback_error"],
         blocked |-> blockAt # {}]

\* add_state_callback(state, callback)
AddStateCallback(st, cb) ==
    /\ cb \notin callbacks[st]
    /\ Cardinality({<<s, f>> \in ExecutionState \X CallbackFns : f \in callbacks[s]})
          < MaxCallbacks
    /\ callbacks' = [callbacks EXCEPT ![st] = @ \cup {cb}]
    /\ UNCHANGED cb_run
    /\ UNCHANGED <<pollVars, orchVars, logVars, stepVars, execVars, mailVars, textVars, writeVars, rateVars, parVars, viewVars>>

\* remove_state_callback(state, callback)
RemoveStateCallback(st, cb) ==
    /\ cb \in callbacks[st]
    /\ callbacks' = [callbacks EXCEPT ![st] = @ \ {cb}]
    /\ UNCHANGED cb_run
    /\ UNCHANGED <<pollVars, orchVars, logVars, stepVars, execVars, mailVars, textVars, writeVars, rateVars, parVars, viewVars>>

\* write_command(c) by the controller
CallbackWrite(c) ==
    /\ commands_file' = WriteFile(commands_file, Obj(c))
    /\ UNCHANGED <<state, pc, call, ret, waited, emitted, hist, written, tainted,
                   expected, onScript>>
    /\ UNCHANGED cbVars
    /\ UNCHANGED <<orchVars, logVars, stepVars, execVars, mailVars, textVars, writeVars, rateVars, parVars, viewVars>>

\* poll_once of a poller with callbacks; a thread blocked in a callback holds
\* state_lock for ever, so no later poll_once gets past it
CallbackPoll ==
    /\ cb_run.ret # "blocked"
    /\ LET r == PollOnceResult(state, commands_file) IN
       \E order \in Orders(IF r.state # state THEN callbacks[r.state] ELSE {}) :
          LET c == InvokeCallbacks(order, state, r.state) IN
            /\ state' = r.state
            /\ commands_file' = IF c.blocked THEN commands_file ELSE r.file
            /\ cb_run' = [polled |-> TRUE, pre |-> state, post |-> r.state,
                          data |-> r.data, regs |-> callbacks[r.state],
                          invoked |-> c.invoked, events |-> r.events \o c.events,
                          ret |-> IF c.blocked THEN "blocked" ELSE r.ret]
    /\ UNCHANGED callbacks
    /\ UNCHANGED <<pc, call, ret, waited, emitted, hist, written, tainted,
                   expected, onScript>>
    /\ UNCHANGED <<orchVars, logVars, stepVars, execVars, mailVars, textVars, writeVars, rateVars, parVars, viewVars>>

CallbackNext ==
    \/ \E st \in ExecutionState, cb \in CallbackFns : AddStateCallback(st, cb)
    \/ \E st \in ExecutionState, cb \in CallbackFns : RemoveStateCallback(st, cb)
    \/ \E c \in WriteInputs : CallbackWrite(c)
    \/ CallbackPoll

CallbackInit ==
    /\ callbacks = NoCallbacks
    /\ cb_run = NoRun

(***************************************************************************)
(* Part VI.  ClaudeAgentExecutor.execute_agent                             *)
(*                                                                         *)
(* One call at a time (execute_parallel is a loop of execute_agent calls). *)
(* A call logs task_started, passes the checkpoint of line 173, and then   *)
(* either returns the mock result or runs the Task function between the    *)
(* two checkpoints of _execute_with_command_polling.                       *)
(***************************************************************************)
\* what the Task function can do: return, raise an Exception that is not a
\* RuntimeError, raise a RuntimeError, raise a RuntimeError whose text
\* contains "stopped by command"
LeafOutcomes == {"returns", "raises", "raises_runtime", "raises_stop_text"}
TaskEvent(type, stg) == [type |-> type, stage |-> stg]

\* the return paths of execute_agent
ReturnStopped == [pc |-> "idle", pos |-> "pre", result |-> "command_stopped",
                  events |-> <<TaskEvent("task_failed", "command_stop")>>]
ReturnError == [pc |-> "idle", pos |-> "pre", result |-> "error",
                events |-> <<TaskEvent("task_failed", "execution")>>]
ReturnDone(mode) == [pc |-> "idle", pos |-> "pre", result |-> mode,
                     events |-> <<TaskEvent("task_completed", None)>>]

\* where execute_agent goes after the checkpoint at pos came back with d
\* ("True", "False", "raised", or "wait"/"pending" while the caller is paused)
AfterCheckPoint(pos, d, env) ==
    CASE d \in {"wait", "pending"} -> [pc |-> "waiting", pos |-> pos, result |-> "none", events |-> <<>>]
      [] d = "False" -> ReturnStopped
      [] d = "raised" -> ReturnError
      [] d = "True" /\ pos = "pre" /\ env = "task" ->
            [pc |-> "checkpoint", pos |-> "before", result |-> "none", events |-> <<>>]
      [] d = "True" /\ pos = "pre" /\ env = "mock" -> ReturnDone("mock_fallback")
      [] d = "True" /\ pos = "before" ->
            [pc |-> "leaf", pos |-> "before", result |-> "none", events |-> <<>>]
      [] d = "True" /\ pos = "after" -> ReturnDone("claude_code_native")

Settle(n) ==
    /\ ex_pc' = n.pc
    /\ ex_pos' = n.pos
    /\ ex_result' = n.result
    /\ ex_events' = ex_events \o n.events

\* the controller: write_command(c)
ExecWrite(c) ==
    /\ commands_file' = WriteFile(commands_file, Obj(c))
    /\ UNCHANGED <<state, pc, call, ret, waited, emitted, hist, written, tainted,
                   expected, onScript>>
    /\ UNCHANGED execVars
    /\ UNCHANGED <<orchVars, logVars, stepVars, cbVars, mailVars, textVars, writeVars, rateVars, parVars, viewVars>>

\* another writer leaves a document in the slot
ExecExternalWrite(doc) ==
    /\ commands_file' = [exists |-> TRUE, text |-> <<doc>>]
    /\ UNCHANGED <<state, pc, call, ret, waited, emitted, hist, written, tainted,
                   expected, onScript>>
    /\ UNCHANGED execVars
    /\ UNCHANGED <<orchVars, logVars, stepVars, cbVars, mailVars, textVars, writeVars, rateVars, parVars, viewVars>>

\* execute_agent up to its first checkpoint: an unsupported agent type raises
\* ValueError before anything is logged
ExecStart(supported, env) ==
    /\ ex_pc = "idle"
    /\ ex_calls < MaxExec
    /\ ex_calls' = ex_calls + 1
    /\ ex_env' = env
    /\ ex_leaf' = FALSE
    /\ ex_stopped' = (state = "stopped")
    /\ ex_pos' = "pre"
    /\ IF supported
       THEN /\ ex_pc' = "checkpoint"
            /\ ex_result' = "none"
            /\ ex_events' = <<TaskEvent("task_started", None)>>
       ELSE /\ ex_pc' = "idle"
            /\ ex_result' = "value_error"
            /\ ex_events' = <<>>
    /\ UNCHANGED pollVars
    /\ UNCHANGED <<orchVars, logVars, stepVars, cbVars, mailVars, textVars, writeVars, rateVars, parVars, viewVars>>

\* integration_check_point() at line 173, 124 or 130, up to its return or its
\* entry into wait_while_paused
ExecCheckPoint ==
    /\ ex_pc = "checkpoint"
    /\ LET r == PollOnceResult(state, commands_file)
           d == CheckPointDecision(r.ret, r.state) IN
        /\ state' = r.state
        /\ commands_file' = r.file
        /\ Settle(AfterCheckPoint(ex_pos, d, ex_env))
    /\ UNCHANGED <<ex_env, ex_leaf, ex_stopped, ex_calls>>
    /\ UNCHANGED <<pc, call, ret, waited, emitted, hist, written, tainted,
                   expected, onScript>>
    /\ UNCHANGED <<orchVars, logVars, stepVars, cbVars, mailVars, textVars, writeVars, rateVars, parVars, viewVars>>

\* one pass of wait_while_paused inside that checkpoint
ExecWait ==
    /\ ex_pc = "waiting"
    /\ LET w == WaitPass(state, commands_file) IN
        /\ state' = w.r.state
        /\ commands_file' = w.r.file
        /\ Settle(AfterCheckPoint(ex_pos, w.ret, ex_env))
    /\ UNCHANGED <<ex_env, ex_leaf, ex_stopped, ex_calls>>
    /\ UNCHANGED <<pc, call, ret, waited, emitted, hist, written, tainted,
                   expected, onScript>>
    /\ UNCHANGED <<orchVars, logVars, stepVars, cbVars, mailVars, textVars, writeVars, rateVars, parVars, viewVars>>

\* task_func(prompt=..., **task_params) and the except clauses it can reach
ExecLeaf(leaf_does) ==
    /\ ex_pc = "leaf"
    /\ ex_leaf' = TRUE
    /\ Settle(CASE leaf_does = "returns" ->
                     [pc |-> "checkpoint", pos |-> "after", result |-> "none", events |-> <<>>]
                [] leaf_does = "raises" -> ReturnError
                [] leaf_does = "raises_stop_text" -> ReturnStopped
                [] leaf_does = "raises_runtime" ->
                     [pc |-> "idle", pos |-> "pre", result |-> "runtime_error", events |-> <<>>])
    /\ UNCHANGED <<ex_env, ex_stopped, ex_calls>>
    /\ UNCHANGED pollVars
    /\ UNCHANGED <<orchVars, logVars, stepVars, cbVars, mailVars, textVars, writeVars, rateVars, parVars, viewVars>>

ExecNext ==
    \/ \E c \in CommandType : ExecWrite(c)
    \/ \E doc \in ExternalDocs : ExecExternalWrite(doc)
    \/ \E supported \in BOOLEAN, env \in {"task", "mock"} : ExecStart(supported, env)
    \/ ExecCheckPoint
    \/ ExecWait
    \/ \E leaf_does \in LeafOutcomes : ExecLeaf(leaf_does)

ExecInit ==
    /\ ex_pc = "idle"
    /\ ex_pos = "pre"
    /\ ex_env = "mock"
    /\ ex_events = <<>>
    /\ ex_result = "none"
    /\ ex_leaf = FALSE
    /\ ex_stopped = FALSE
    /\ ex_calls = 0

(***************************************************************************)
(* Part VII.  The file mailbox (MorganaREPL)                               *)
(*                                                                         *)
(* A client drops a task file in pending; a worker's poll_loop takes the   *)
(* oldest file of pending and runs process_task on it: read, rename to     *)
(* processing, executor, result file in complete, unlink.  Worker          *)
(* processes can die at any point and be started again.                    *)
(***************************************************************************)
TaskFiles == {"t1", "t2"}
Workers == {"w1", "w2"}
NoTask == "none"

\* done: the process_task call that moved the file to processing has returned
NoMail == [loc |-> "none", wellformed |-> TRUE, result |-> FALSE, done |-> FALSE]
Idle == [status |-> "idle", task |-> NoTask]
Down == [status |-> "down", task |-> NoTask]

\* task_files = list(pending_dir.glob("*.json")); min(..., key=st_mtime)
Pending == {t \in TaskFiles : mail[t].loc = "pending"}
Oldest ==
    LET idx == {i \in 1..Len(mail_order) : mail_order[i] \in Pending}
    IN  mail_order[CHOOSE i \in idx : \A j \in idx : i <= j]

\* the except clause of process_task: the task file is moved to failed if
\* it is still at its path in pending
HandleError(m, t) ==
    [m EXCEPT ![t].loc = IF @ = "pending" THEN "failed" ELSE @]

\* a client writes a task file into pending
DropTask(t, wf) ==
    /\ mail[t].loc = "none"
    /\ mail' = [mail EXCEPT ![t] = [loc |-> "pending", wellformed |-> wf, result |-> FALSE,
                                    done |-> FALSE]]
    /\ mail_order' = Append(mail_order, t)
    /\ UNCHANGED <<workers, executed>>
    /\ UNCHANGED <<pollVars, orchVars, logVars, stepVars, cbVars, execVars, textVars, writeVars, rateVars, parVars, viewVars>>

\* poll_loop: glob pending and pick the oldest file
PickTask(w) ==
    /\ workers[w].status = "idle"
    /\ Pending # {}
    /\ workers' = [workers EXCEPT ![w] = [status |-> "picked", task |-> Oldest]]
    /\ UNCHANGED <<mail, mail_order, executed>>
    /\ UNCHANGED <<pollVars, orchVars, logVars, stepVars, cbVars, execVars, textVars, writeVars, rateVars, parVars, viewVars>>

\* process_task: open and json.load the task file
ReadTask(w) ==
    /\ workers[w].status = "picked"
    /\ LET t == workers[w].task IN
       IF mail[t].loc = "pending" /\ mail[t].wellformed
       THEN /\ workers' = [workers EXCEPT ![w].status = "read"]
            /\ UNCHANGED mail
       ELSE /\ workers' = [workers EXCEPT ![w] = Idle]
            /\ mail' = HandleError(mail, t)
    /\ UNCHANGED <<mail_order, executed>>
    /\ UNCHANGED <<pollVars, orchVars, logVars, stepVars, cbVars, execVars, textVars, writeVars, rateVars, parVars, viewVars>>

\* rename as it would be if it succeeded without the file in pending
RenameTaskBlind(w) ==
    /\ workers[w].status = "read"
    /\ mail' = [mail EXCEPT ![workers[w].task].loc = "processing"]
    /\ workers' = [workers EXCEPT ![w].status = "claimed"]
    /\ UNCHANGED <<mail_order, executed>>
    /\ UNCHANGED <<pollVars, orchVars, logVars, stepVars, cbVars, execVars, textVars, writeVars, rateVars, parVars, viewVars>>

\* process_task: task_file.rename(processing_file)
RenameTask(w) ==
    /\ workers[w].status = "read"
    /\ LET t == workers[w].task IN
       IF mail[t].loc = "pending"
       THEN /\ mail' = [mail EXCEPT ![t].loc = "processing"]
            /\ workers' = [workers EXCEPT ![w].status = "claimed"]
       ELSE /\ mail' = HandleError(mail, t)
            /\ workers' = [workers EXCEPT ![w] = Idle]
    /\ UNCHANGED <<mail_order, executed>>
    /\ UNCHANGED <<pollVars, orchVars, logVars, stepVars, cbVars, execVars, textVars, writeVars, rateVars, parVars, viewVars>>

\* process_task: result = self.executor(agent_type, prompt, ...)
ExecuteTask(w, ok) ==
    /\ workers[w].status = "claimed"
    /\ LET t == workers[w].task IN
        /\ executed' = [executed EXCEPT ![t] = @ + 1]
        /\ IF ok
           THEN /\ workers' = [workers EXCEPT ![w].status = "executed"]
                /\ UNCHANGED mail
           ELSE /\ workers' = [workers EXCEPT ![w] = Idle]
                /\ mail' = [HandleError(mail, t) EXCEPT ![t].done = TRUE]
    /\ UNCHANGED mail_order
    /\ UNCHANGED <<pollVars, orchVars, logVars, stepVars, cbVars, execVars, textVars, writeVars, rateVars, parVars, viewVars>>

\* process_task: write the result file into complete
WriteResult(w, ok) ==
    /\ workers[w].status = "executed"
    /\ LET t == workers[w].task IN
       IF ok
       THEN /\ mail' = [mail EXCEPT ![t].result = TRUE]
            /\ workers' = [workers EXCEPT ![w].status = "written"]
       ELSE /\ mail' = [HandleError(mail, t) EXCEPT ![t].done = TRUE]
            /\ workers' = [workers EXCEPT ![w] = Idle]
    /\ UNCHANGED <<mail_order, executed>>
    /\ UNCHANGED <<pollVars, orchVars, logVars, stepVars, cbVars, execVars, textVars, writeVars, rateVars, parVars, viewVars>>

\* process_task: processing_file.unlink()
UnlinkProcessing(w) ==
    /\ workers[w].status = "written"
    /\ mail' = [mail EXCEPT ![workers[w].task].loc = "gone", ![workers[w].task].done = TRUE]
    /\ workers' = [workers EXCEPT ![w] = Idle]
    /\ UNCHANGED <<mail_order, executed>>
    /\ UNCHANGED <<pollVars, orchVars, logVars, stepVars, cbVars, execVars, textVars, writeVars, rateVars, parVars, viewVars>>

\* the worker process dies (killed, or interrupted inside process_task)
Crash(w) ==
    /\ workers[w].status # "down"
    /\ workers' = [workers EXCEPT ![w] = Down]
    /\ UNCHANGED <<mail, mail_order, executed>>
    /\ UNCHANGED <<pollVars, orchVars, logVars, stepVars, cbVars, execVars, textVars, writeVars, rateVars, parVars, viewVars>>

\* a worker is started again: MorganaREPL(), start()
Restart(w) ==
    /\ workers[w].status = "down"
    /\ workers' = [workers EXCEPT ![w] = Idle]
    /\ UNCHANGED <<mail, mail_order, executed>>
    /\ UNCHANGED <<pollVars, orchVars, logVars, stepVars, cbVars, execVars, textVars, writeVars, rateVars, parVars, viewVars>>

MailNext ==
    \/ \E t \in TaskFiles, wf \in BOOLEAN : DropTask(t, wf)
    \/ \E w \in Workers : PickTask(w)
    \/ \E w \in Workers : ReadTask(w)
    \/ \E w \in Workers : RenameTask(w)
    \/ \E w \in Workers, ok \in BOOLEAN : ExecuteTask(w, ok)
    \/ \E w \in Workers, ok \in BOOLEAN : WriteResult(w, ok)
    \/ \E w \in Workers : UnlinkProcessing(w)
    \/ \E w \in Workers : Crash(w)
    \/ \E w \in Workers : Restart(w)

MailInit ==
    /\ mail = [t \in TaskFiles |-> NoMail]
    /\ mail_order = <<>>
    /\ workers = [w \in Workers |-> Idle]
    /\ executed = [t \in TaskFiles |-> 0]

(***************************************************************************)
(* Part VIII.  Text fields of task events                                  *)
(*                                                                         *)
(* A text is modelled by its length; a stored text by the number of        *)
(* leading characters kept and whether "..." was appended.                 *)
(***************************************************************************)
PromptLimit == 500
OutputLimit == 1000
EllipsisLen == 3
TextEvents == {"task_started", "task_completed", "task_failed"}

\* text[:limit] + "..." if len(text) > limit else text
Truncate(len, limit) ==
    IF len > limit THEN [kept |-> limit, ellipsis |-> TRUE]
    ELSE [kept |-> len, ellipsis |-> FALSE]
\* the text itself
Verbatim(len) == [kept |-> len, ellipsis |-> FALSE]

\* the text field of the record each logging method builds
StoredText(type, len) ==
    CASE type = "task_started" -> Truncate(len, PromptLimit)
      [] type = "task_completed" -> Truncate(len, OutputLimit)
      [] type = "task_failed" -> Verbatim(len)

NoText == [type |-> "none", len |-> 0]

\* task_started(.., prompt, ..), task_completed(.., output, ..) or
\* task_failed(.., error, ..) with a text of the given length; the record
\* of a call does not depend on earlier calls, so one call is followed
LogTaskEvent(type, len) ==
    /\ ev_text = NoText
    /\ ev_text' = [type |-> type, len |-> len]
    /\ ev_stored' = StoredText(type, len)
    /\ UNCHANGED <<pollVars, orchVars, logVars, stepVars, cbVars, execVars, mailVars, writeVars, rateVars, parVars, viewVars>>

TextNext == \E type \in TextEvents, len \in 0..MaxTextLen : LogTaskEvent(type, len)

TextInit ==
    /\ ev_text = NoText
    /\ ev_stored = Verbatim(0)

(***************************************************************************)
(* Part IX.  write_command, file operation by file operation               *)
(*                                                                         *)
(* write_command opens the slot with mode 'w', which truncates it, and     *)
(* json.dump then writes through the file object's buffer: a small record  *)
(* reaches the file when the file is closed, a record larger than the      *)
(* buffer reaches it in pieces.  Parts I and IV take the call as one step. *)
(***************************************************************************)
NoWriter == [active |-> FALSE, cmd |-> None, size |-> "small", flushed |-> FALSE]
NotSeen == [polled |-> FALSE, raw |-> "absent", writing |-> FALSE]

\* open(commands_file, 'w'): the slot exists and is empty
OpenTruncate == [exists |-> TRUE, text |-> <<>>]
\* the buffer is flushed before the record is complete: a prefix of its text
PartialRecord == [exists |-> TRUE, text |-> <<InvalidDoc>>]

\* write_command(c, ...): open(commands_file, 'w')
WriteOpen(c, size) ==
    /\ ~wr.active
    /\ wr' = [active |-> TRUE, cmd |-> c, size |-> size, flushed |-> FALSE]
    /\ commands_file' = OpenTruncate
    /\ UNCHANGED seen
    /\ UNCHANGED <<state, pc, call, ret, waited, emitted, hist, written, tainted,
                   expected, onScript>>
    /\ UNCHANGED <<orchVars, logVars, stepVars, cbVars, execVars, mailVars, textVars, rateVars, parVars, viewVars>>

\* json.dump: the buffer fills and is written out
WriteFlush ==
    /\ wr.active /\ wr.size = "large" /\ ~wr.flushed
    /\ wr' = [wr EXCEPT !.flushed = TRUE]
    /\ commands_file' = PartialRecord
    /\ UNCHANGED seen
    /\ UNCHANGED <<state, pc, call, ret, waited, emitted, hist, written, tainted,
                   expected, onScript>>
    /\ UNCHANGED <<orchVars, logVars, stepVars, cbVars, execVars, mailVars, textVars, rateVars, parVars, viewVars>>

\* the end of the with block: the rest is written and the file closed
WriteClose ==
    /\ wr.active
    /\ wr' = NoWriter
    /\ commands_file' = WriteFile(commands_file, Obj(wr.cmd))
    /\ UNCHANGED seen
    /\ UNCHANGED <<state, pc, call, ret, waited, emitted, hist, written, tainted,
                   expected, onScript>>
    /\ UNCHANGED <<orchVars, logVars, stepVars, cbVars, execVars, mailVars, textVars, rateVars, parVars, viewVars>>

\* poll_once by the worker
SlotPoll ==
    /\ LET r == PollOnceResult(state, commands_file) IN
        /\ state' = r.state
        /\ commands_file' = r.file
        /\ seen' = [polled |-> TRUE, raw |-> RawKind(commands_file), writing |-> wr.active]
    /\ UNCHANGED wr
    /\ UNCHANGED <<pc, call, ret, waited, emitted, hist, written, tainted,
                   expected, onScript>>
    /\ UNCHANGED <<orchVars, logVars, stepVars, cbVars, execVars, mailVars, textVars, rateVars, parVars, viewVars>>

WriteNext ==
    \/ \E c \in CommandType, size \in RecordSizes : WriteOpen(c, size)
    \/ WriteFlush
    \/ WriteClose
    \/ SlotPoll

WriteInit ==
    /\ wr = NoWriter
    /\ seen = NotSeen

(***************************************************************************)
(* Part X.  The rate limit of poll_once                                    *)
(*                                                                         *)
(* Time is counted in ticks.  _enforce_rate_limit reads the clock and      *)
(* last_poll_time, sleeps out the rest of the interval, and stamps         *)
(* last_poll_time; the read of the slot follows the stamp at once.         *)
(* Nothing serialises the threads that call poll_once on one poller.       *)
(***************************************************************************)
\* min_poll_interval = 1.0 / max_poll_rate, in ticks
MinPollInterval == 2
Threads == {"th1", "th2"}
NoRead == -1
Ready == [at |-> "ready", wake |-> 0]

\* the clock advances
Tick ==
    /\ now < MaxTime
    /\ now' = now + 1
    /\ UNCHANGED <<last_poll_time, threads, reads>>
    /\ UNCHANGED <<pollVars, orchVars, logVars, stepVars, cbVars, execVars, mailVars, textVars, writeVars, parVars, viewVars>>

\* when a thread that saw `elapsed` ticks since the last poll may go on
WakeTime(t, elapsed) ==
    IF elapsed < MinPollInterval THEN t + (MinPollInterval - elapsed) ELSE t

\* _enforce_rate_limit: current_time = time.time(); elapsed = ...; the
\* thread sleeps if elapsed < min_poll_interval
RateCheck(th) ==
    /\ threads[th].at = "ready"
    /\ threads' = [threads EXCEPT ![th] =
                      [at |-> "sleeping", wake |-> WakeTime(now, now - last_poll_time)]]
    /\ UNCHANGED <<now, last_poll_time, reads>>
    /\ UNCHANGED <<pollVars, orchVars, logVars, stepVars, cbVars, execVars, mailVars, textVars, writeVars, parVars, viewVars>>

\* the sleep is over: self.last_poll_time = time.time(), then
\* command_data = self._read_commands()
RateRead(th) ==
    /\ threads[th].at = "sleeping"
    /\ now >= threads[th].wake
    /\ last_poll_time' = now
    /\ reads' = [n |-> IF reads.n < 2 THEN reads.n + 1 ELSE 2, last |-> now,
                 gap |-> IF reads.n = 0 THEN NoRead ELSE now - reads.last]
    /\ threads' = [threads EXCEPT ![th] = Ready]
    /\ UNCHANGED now
    /\ UNCHANGED <<pollVars, orchVars, logVars, stepVars, cbVars, execVars, mailVars, textVars, writeVars, parVars, viewVars>>

RateNext ==
    \/ Tick
    \/ \E th \in Threads : RateCheck(th)
    \/ \E th \in Threads : RateRead(th)

\* last_poll_time starts at 0.0 and the clock far beyond it
RateInit ==
    /\ now = MinPollInterval
    /\ last_poll_time = 0
    /\ threads = [th \in Threads |-> Ready]
    /\ reads = [n |-> 0, last |-> 0, gap |-> NoRead]

(***************************************************************************)
(* Part XI.  ClaudeAgentExecutor.execute_parallel                          *)
(*                                                                         *)
(* A loop over the entries; each well-formed entry is handed to            *)
(* execute_agent, which returns a result or raises (Part VI).              *)
(***************************************************************************)
\* an entry is a dictionary with a supported agent type and a prompt, not a
\* dictionary, a dictionary without agent_type or prompt, or a dictionary
\* naming an unsupported agent type
EntryKinds == {"valid", "not_dict", "missing", "unsupported"}
EntryLists == UNION {[1..n -> EntryKinds] : n \in 0..MaxEntries}
\* how execute_agent can end for an entry: the execution_mode it returns, or
\* the exception that leaves it
ExecuteAgentEnds(kind) ==
    IF kind = "unsupported" THEN {"value_error"}
    ELSE {"command_stopped", "error", "claude_code_native", "mock_fallback", "runtime_error"}
NoPar == [status |-> "idle", entries |-> <<>>, results |-> <<>>]

\* execute_parallel(tasks): results = []
ExecuteParallel(entries) ==
    /\ par.status # "running"
    /\ par' = [status |-> "running", entries |-> entries, results |-> <<>>]
    /\ UNCHANGED <<pollVars, orchVars, logVars, stepVars, cbVars, execVars, mailVars, textVars, writeVars, rateVars, viewVars>>

\* one round of `for task in tasks`
ParEntry(end) ==
    /\ par.status = "running"
    /\ Len(par.results) < Len(par.entries)
    /\ LET i == Len(par.results) + 1
           kind == par.entries[i] IN
       IF kind \in {"not_dict", "missing"}
       THEN par' = [par EXCEPT !.results = Append(@, [entry |-> i, success |-> FALSE, mode |-> kind])]
       ELSE /\ end \in ExecuteAgentEnds(kind)
            /\ IF end \in {"value_error", "runtime_error"}
               THEN par' = [par EXCEPT !.status = end]
               ELSE par' = [par EXCEPT !.results =
                              Append(@, [entry |-> i,
                                         success |-> end \in {"claude_code_native", "mock_fallback"},
                                         mode |-> end])]
    /\ UNCHANGED <<pollVars, orchVars, logVars, stepVars, cbVars, execVars, mailVars, textVars, writeVars, rateVars, viewVars>>

\* return results
ParReturn ==
    /\ par.status = "running"
    /\ Len(par.results) = Len(par.entries)
    /\ par' = [par EXCEPT !.status = "returned"]
    /\ UNCHANGED <<pollVars, orchVars, logVars, stepVars, cbVars, execVars, mailVars, textVars, writeVars, rateVars, viewVars>>

ParNext ==
    \/ \E entries \in EntryLists : ExecuteParallel(entries)
    \/ \E end \in ExecuteAgentEnds("valid") \cup ExecuteAgentEnds("unsupported") : ParEntry(end)
    \/ ParReturn

ParInit == par = NoPar

(***************************************************************************)
(* Part XII.  view_events, follow mode                                     *)
(*                                                                         *)
(* The viewer runs beside the producers of Part III.  File positions are   *)
(* counted in appended pieces: each append lands at the end of the file as *)
(* one piece, so every size the viewer sees is a number of pieces.  A line *)
(* ends with the last piece of a record, which carries the newline.        *)
(***************************************************************************)
NoView == [pc |-> "off", start |-> 0, last_position |-> 0, current_size |-> 0,
           shown |-> <<>>]

\* st_size
Size(f) == Len(f.text)

\* the piece with which the line of piece i begins, reading from after pos
LineStart(text, pos, i) ==
    LET ends == {j \in (pos + 1)..(i - 1) : text[j].part = text[j].of}
    IN  IF ends = {} THEN pos + 1
        ELSE (CHOOSE j \in ends : \A k \in ends : k <= j) + 1

\* json.loads(line) succeeds: the line that ends at piece i is one whole record
Parses(text, pos, i) ==
    SubSeq(text, LineStart(text, pos, i), i) = Pieces(text[i].p, text[i].n,
        IF text[i].of = 1 THEN "small" ELSE "large")

\* f.seek(pos); for line in f: the events printed, in order.  A line without
\* its newline at the end of the file is not a whole record and is skipped.
RECURSIVE Printed(_, _, _)
Printed(text, pos, i) ==
    IF i > Len(text) THEN <<>>
    ELSE IF text[i].part = text[i].of /\ Parses(text, pos, i)
         THEN <<[p |-> text[i].p, n |-> text[i].n]>> \o Printed(text, pos, i + 1)
         ELSE Printed(text, pos, i + 1)

\* view_events(follow=True) after the initial display: last_position = st_size
ViewStart ==
    /\ view.pc = "off"
    /\ log_file.exists
    /\ view' = [view EXCEPT !.pc = "stat", !.start = Size(log_file),
                            !.last_position = Size(log_file)]
    /\ UNCHANGED <<pollVars, orchVars, logVars, stepVars, cbVars, execVars, mailVars, textVars, writeVars, rateVars, parVars>>

\* current_size = st_size, found larger than last_position
ViewStat ==
    /\ view.pc = "stat"
    /\ Size(log_file) > view.last_position
    /\ view' = [view EXCEPT !.pc = "read", !.current_size = Size(log_file)]
    /\ UNCHANGED <<pollVars, orchVars, logVars, stepVars, cbVars, execVars, mailVars, textVars, writeVars, rateVars, parVars>>

\* open, seek(last_position), print every line that parses up to the end of
\* the file; last_position = current_size
ViewRead ==
    /\ view.pc = "read"
    /\ view' = [view EXCEPT
                   !.pc = "stat",
                   !.shown = @ \o Printed(log_file.text, view.last_position,
                                          view.last_position + 1),
                   !.last_position = view.current_size]
    /\ UNCHANGED <<pollVars, orchVars, logVars, stepVars, cbVars, execVars, mailVars, textVars, writeVars, rateVars, parVars>>

ViewNext ==
    \/ LogNext
    \/ ViewStart
    \/ ViewStat
    \/ ViewRead

ViewInit == view = NoView

\* the caller only creates tasks, with any parent_id: none, a registered task
\* or an id the registry does not know
TreeNext ==
    \E a \in CallerTypes, p \in {NoId, UnknownId} \cup (1..Len(tasks)), ok \in BOOLEAN :
        CreateSubAgent(a, p, ok)

PollInit ==
    /\ state = "running"
    /\ commands_file = NoFile
    /\ pc = "idle"
    /\ call = "none"
    /\ ret = "none"
    /\ waited = FALSE
    /\ emitted = <<>>
    /\ hist = NoPoll
    /\ written = <<>>
    /\ tainted = FALSE
    /\ expected = "running"
    /\ onScript = TRUE

OrchInit ==
    /\ tasks = <<>>
    /\ execution_stack = <<>>
    /\ opc = "idle"
    /\ cur = NoId
    /\ stage = 0
    /\ leaf = NoId
    /\ outcome = "none"
    /\ published = <<>>
    /\ inbox = {}
    /\ calls = 0
    /\ fault = "none"
    /\ sub_tasks = <<>>
    /\ stage_result = NoId
    /\ prompt_of = <<>>
    /\ early = {}
    /\ release = NoRelease

Init == PollInit /\ OrchInit /\ LogInit /\ StepInit /\ CallbackInit /\ ExecInit
        /\ MailInit /\ TextInit /\ WriteInit /\ RateInit
        /\ ParInit /\ ViewInit

(***************************************************************************)
(* Claims about the command channel                                        *)
(***************************************************************************)
\* the poll_once observed in hist followed k write_command calls and no other write
AfterWrites(k) == hist.polled /\ ~hist.tainted /\ hist.n = k
\* nothing was written since the poll_once observed in hist
Quiet == written = <<>> /\ ~tainted

\* C1: a poller that starts RUNNING and is fed a sequence of commands, each
\* written and then processed by one poll_once, is in the state the
\* transition table gives for that sequence.
C1_FollowsTransitionTable == onScript => state = expected
\* PAUSE while PAUSED, as a later step of such a sequence, changed nothing
C1_Witness ==
    /\ onScript /\ hist.polled /\ hist.last = "pause"
    /\ hist.pre = "paused" /\ state = "paused"

\* C2: once STOPPED the state never changes again, and every poll_once made
\* in state STOPPED returns false, whatever the slot holds.
C2_StoppedAbsorbing ==
    (hist.polled /\ hist.pre = "stopped") =>
        (state = "stopped" /\ hist.ret = "False")

\* C3 as stated: one write_command of a command kind followed by poll_once
\* applies the command exactly once and empties the slot, and a second
\* poll_once with no new write changes nothing and returns true.
C3_FirstPoll ==
    (AfterWrites(1) /\ hist.last \in CommandType) =>
        /\ hist.applied = <<hist.last>>
        /\ state = TransitionTable[hist.pre][hist.last]
        /\ Quiet => commands_file = NoFile
C3_SecondPollNoOp ==
    (AfterWrites(0) /\ hist.prevOne) =>
        /\ hist.applied = <<>>
        /\ state = hist.pre
        /\ Quiet => commands_file = NoFile
C7_InvalidJsonFailsSoft ==
    (hist.polled /\ hist.raw = "invalid" /\ hist.pre # "stopped") =>
        /\ hist.ret = "True"
        /\ state = hist.pre
        /\ hist.events = <<"command_read_error">>
        /\ hist.applied = <<>>
\* a paused poller polled invalid JSON and carried on
C7_Witness ==
    /\ hist.polled /\ hist.raw = "invalid" /\ hist.pre = "paused"
    /\ hist.ret = "True" /\ state = "paused"

\* C26: poll_once fails soft on every slot content that holds no command of
\* a known kind: an empty slot, invalid JSON, JSON that is not an object, an
\* object without a command field, an object with an unknown command.  It
\* raises nothing and leaves the state unchanged.
C26_FailsSoft ==
    (hist.polled /\ hist.data.command \notin CommandType) =>
        (hist.ret # "raised" /\ state = hist.pre)

Next ==
    \/ \E c \in WriteInputs : WriteCommand(c)
    \/ \E doc \in ExternalDocs : ExternalWrite(doc)
    \/ ExternalBlank
    \/ PollOnce
    \/ IntegrationCheckPoint
    \/ WaitWhilePaused

(***************************************************************************)
(* Claims about the orchestrator                                           *)
(***************************************************************************)
\* C8: the execution stack is empty whenever no execute_with_subagents call
\* is running, that is before and after every top-level call, however the
\* call ended.
C8_StackBalanced == opc = "idle" => execution_stack = <<>>

\* C9: a task that is COMPLETED or FAILED never changes state again; executing
\* it is refused instead of run.
C9_TerminalStatesFinal ==
    [][\A t \in 1..Len(tasks) :
          tasks[t].state \in {"completed", "failed"} =>
              tasks'[t].state = tasks[t].state]_vars

\* C10: no task id is on the execution stack twice; executing a task that is
\* already on the stack is refused and leaves the stack as it was.
C10_NoTaskTwiceOnStack ==
    \A i, j \in 1..Len(execution_stack) :
        i # j => execution_stack[i] # execution_stack[j]

\* ---- the end of an execute_with_subagents call ----
\* the call on task cur has set its outcome; only the pop of the stack remains
CallEnding == opc = "finally"
\* the tasks the call has created: the task ids of its agent_created events
CreatedInCall ==
    {published[i][2] : i \in {j \in 1..Len(published) : published[j][1] = "agent_created"}}
LastPublished == IF published = <<>> THEN <<>> ELSE published[Len(published)]

C12_DirectorAllCompleted ==
    (CallEnding /\ outcome = "returned" /\ tasks[cur].agent_type \in DirectorTypes) =>
        /\ Cardinality(CreatedInCall) = Len(StageTypes)
        /\ \A c \in CreatedInCall :
              tasks[c].parent_id = cur /\ tasks[c].state = "completed"
        /\ tasks[cur].state = "completed"
        /\ tasks[cur].result = "aggregate"

\* C13: when the executor raises at stage k of a director call, the director
\* is FAILED with the error (not an aggregate) as result, the call raises, and
\* the stage-k child is the last task ever created by the call: k tasks were
\* created, none for a later stage.
C13_FailFast ==
    (CallEnding /\ fault = "work" /\ tasks[cur].agent_type \in DirectorTypes) =>
        /\ tasks[cur].state = "failed"
        /\ tasks[cur].result = "error"
        /\ outcome = "raised"
        /\ Cardinality(CreatedInCall) = stage
        /\ leaf = Len(tasks)
        /\ tasks[leaf].agent_type = StageTypes[stage]
        /\ tasks[leaf].parent_id = cur
\* the executor raised at stage 2: two children exist, the director is FAILED
C13_Witness ==
    /\ CallEnding /\ fault = "work" /\ tasks[cur].agent_type \in DirectorTypes
    /\ stage = 2 /\ Cardinality(CreatedInCall) = 2
    /\ tasks[cur].state = "failed" /\ outcome = "raised"

\* C14: when the executor raises at stage k of a director call, exactly k-1
\* of the children the call created are COMPLETED.
C14_CompletedBeforeFailure ==
    (CallEnding /\ fault = "work" /\ tasks[cur].agent_type \in DirectorTypes) =>
        Cardinality({c \in CreatedInCall : tasks[c].state = "completed"}) = stage - 1

\* C15: every change of a task's state is an allowed transition, and when an
\* execute_with_subagents call ends, neither its task nor the task its last
\* execute_agent worked on is PENDING or RUNNING.
AllowedTransitions ==
    {<<"pending", "running">>, <<"running", "waiting">>, <<"running", "paused">>,
     <<"running", "completed">>, <<"running", "failed">>, <<"waiting", "running">>,
     <<"paused", "running">>, <<"paused", "failed">>}
C15_OnlyAllowedTransitions ==
    [][/\ \A t \in 1..Len(tasks) :
             tasks'[t].state # tasks[t].state =>
                 <<tasks[t].state, tasks'[t].state>> \in AllowedTransitions
       /\ (opc = "finally" /\ opc' = "idle") =>
             /\ tasks[cur].state \notin {"pending", "running"}
             /\ leaf # NoId => tasks[leaf].state \notin {"pending", "running"}]_vars

\* ---- the task tree ----
Registered == 1..Len(tasks)
\* the registry is a consistent tree
TreeConsistent ==
    /\ \A t \in Registered :
          \* a task with a registered parent is in that parent's children list, once
          /\ tasks[t].parent_id \in Registered =>
                Cardinality({i \in 1..Len(tasks[tasks[t].parent_id].children) :
                                tasks[tasks[t].parent_id].children[i] = t}) = 1
          \* its own children are registered, name it as parent, in creation order
          /\ \A i \in 1..Len(tasks[t].children) :
                /\ tasks[t].children[i] \in Registered
                /\ tasks[tasks[t].children[i]].parent_id = t
                /\ \A j \in 1..Len(tasks[t].children) :
                      i < j => tasks[t].children[i] < tasks[t].children[j]
\* a step that creates a task: the new task is PENDING with no children, and
\* of the old records only the children list of its registered parent changed
CreateFrame ==
    Len(tasks') = Len(tasks) + 1 =>
        /\ tasks'[Len(tasks')].state = "pending"
        /\ tasks'[Len(tasks')].children = <<>>
        /\ \A t \in Registered :
              IF t = tasks'[Len(tasks')].parent_id
              THEN tasks'[t] = [tasks[t] EXCEPT !.children = Append(@, Len(tasks'))]
              ELSE tasks'[t] = tasks[t]

\* C16: after any sequence of create_sub_agent calls every task is registered
\* and PENDING, the registry is a consistent tree (a task with a registered
\* parent is exactly once in that parent's children, children lists are in
\* creation order and hold only registered tasks that name the owner as
\* parent), and each call changed no other record than the parent's children.
C16_TreeConsistent ==
    [][/\ CreateFrame
       /\ TreeConsistent'
       /\ \A t \in 1..Len(tasks') : tasks'[t].state = "pending"]_vars
\* a parent with two children and a task whose parent_id is not registered
C16_Witness ==
    /\ \E t \in Registered : Len(tasks[t].children) = 2
    /\ \E t \in Registered : tasks[t].parent_id = UnknownId
    /\ \E t \in Registered : tasks[t].parent_id = NoId

(***************************************************************************)
(* Claims about the event log                                              *)
(***************************************************************************)
\* the pieces of record n of producer p that are in the text, in file order
RecordOf(text, p, n) == SelectSeq(text, LAMBDA x : x.p = p /\ x.n = n)
\* the logging calls of producer p that have finished, given its logger
Finished(lg) == IF lg.pending = <<>> THEN 1..lg.n ELSE 1..(lg.n - 1)

\* C17: with two producers appending concurrently no record of the log is
\* torn: every piece of a record that is not its first directly follows the
\* piece before it of the same record; and the records of one producer are in
\* the order it wrote them.
C17_NoTornRecord ==
    /\ \A i \in 1..Len(log_file.text) :
          log_file.text[i].part > 1 =>
              /\ i > 1
              /\ log_file.text[i - 1].p = log_file.text[i].p
              /\ log_file.text[i - 1].n = log_file.text[i].n
              /\ log_file.text[i - 1].part = log_file.text[i].part - 1
    /\ \A i, j \in 1..Len(log_file.text) :
          (i < j /\ log_file.text[i].p = log_file.text[j].p) =>
              log_file.text[i].n <= log_file.text[j].n

IsPrefix(a, b) == Len(a) <= Len(b) /\ SubSeq(b, 1, Len(a)) = a
\* C18: every step of every logger operation, the construction of a logger
\* on an existing file included, leaves the log that was there in place as a
\* prefix of the new log, and a logging call that has finished has added
\* the pieces of exactly one record, each once.
C18_AppendOnly ==
    [][/\ IsPrefix(log_file.text, log_file'.text)
       /\ log_file.exists => log_file'.exists
       /\ log_op' = "__init__" => log_file'.text = log_file.text
       /\ \A p \in Producers : \A n \in Finished(loggers'[p]) :
             \E size \in RecordSizes :
                 RecordOf(log_file'.text, p, n) = Pieces(p, n, size)]_vars
\* a logger was constructed on a log that already held two records of a producer
C18_Witness ==
    /\ log_op = "__init__" /\ log_file.exists
    /\ \E p \in Producers :
          /\ 2 \in Finished(loggers[p])
          /\ Len(RecordOf(log_file.text, p, 1)) + Len(RecordOf(log_file.text, p, 2)) >= 3

(***************************************************************************)
(* Claims about poll_once interleaved with write_command                   *)
(***************************************************************************)
\* C19: no written command disappears from the slot unapplied: a command is
\* removed from the slot only by the poll that read it, so every command
\* that is not overwritten gets applied by a poller that keeps polling.
C19_NoCommandLost == lost = {}

\* C20: the command of one write_command call is applied at most once, over
\* any sequence of polls, also when _clear_commands fails and also when the
\* command leaves the state unchanged.
C20_AppliedAtMostOnce == \A w \in 1..next_id : applied_n[w] <= 1

\* C29: a resume written while a checkpoint is blocked in wait_while_paused,
\* and not overwritten, lets the checkpoint return true with the state
\* RUNNING and the slot empty.  So such a resume is never removed from the
\* slot without having been read, leaving the waiter PAUSED with nothing to
\* read.
C29_ResumeReleasesWaiter ==
    ~(/\ last_write.cmd = "resume" /\ last_write.waiting
      /\ next_id \in lost
      /\ state = "paused" /\ step = "idle" /\ commands_file = NoFile)

(***************************************************************************)
(* Claims about state callbacks                                            *)
(***************************************************************************)
\* the poll observed in cb_run changed the state
StateChanged == cb_run.polled /\ cb_run.pre # cb_run.post

\* C21: when a poll_once changes the state to X, every callback registered
\* for X is called exactly once, with the old and the new state; a callback
\* that raises is logged, the state stays X, the other callbacks are still
\* called and poll_once returns without raising.  A poll_once that does not
\* change the state calls no callback.
C21_CallbacksInvokedOnce ==
    /\ StateChanged =>
          /\ state = cb_run.post
          /\ cb_run.ret \in {"True", "False"}
          /\ Len(cb_run.invoked) = Cardinality(cb_run.regs)
          /\ \A cb \in cb_run.regs :
                \E i \in 1..Len(cb_run.invoked) :
                    cb_run.invoked[i] = <<cb, cb_run.pre, cb_run.post>>
          /\ Len(SelectSeq(cb_run.events, LAMBDA ev : ev = "callback_error"))
                = Cardinality({cb \in cb_run.regs : Behaviour(cb) = "raises"})
    /\ (cb_run.polled /\ ~StateChanged) => cb_run.invoked = <<>>

\* C25: poll_once returns, whatever the slot holds and whatever callbacks are
\* registered, a callback that calls a state query of the same poller included.
C25_PollOnceReturns == cb_run.polled => cb_run.ret \in {"True", "False", "raised"}

(***************************************************************************)
(* Claims about execute_agent                                              *)
(***************************************************************************)
Returned(mode) == ex_pc = "idle" /\ ex_result = mode
Logged(type) == \E i \in 1..Len(ex_events) : ex_events[i].type = type

\* C22: an execution that ends because a stop was observed at a checkpoint is
\* reported as stopped, not as an executor failure, and no failure event is
\* logged for it.
C22_StopIsNotAFailure == Returned("command_stopped") => ~Logged("task_failed")

\* C30: a call of execute_agent (with a supported agent type) that begins
\* after the poller has observed a stop returns execution_mode
\* "command_stopped" and does not invoke the leaf executor.
C30_StoppedStaysStopped ==
    (ex_pc = "idle" /\ ex_stopped /\ ex_result # "value_error")
        => (ex_result = "command_stopped" /\ ~ex_leaf)

(***************************************************************************)
(* Claims about the file mailbox                                           *)
(***************************************************************************)
\* a worker process is inside process_task for task file t
Holds(w, t) == workers[w].task = t /\ workers[w].status \in {"claimed", "executed", "written"}
\* t sits in processing, was never executed, and no worker is working on it:
\* only pending is ever listed, so no step of any worker touches t again
Stranded(t) == mail[t].loc = "processing" /\ executed[t] = 0 /\ \A w \in Workers : ~Holds(w, t)

\* C23: delivery is at-least-once: every well-formed task dropped in pending
\* is executed and gets an outcome record (complete or failed) as long as a
\* worker polls, also when a worker dies between claiming the task and
\* writing its result and a worker is started again.  So a well-formed task
\* is never left where no worker will take it up again.
C23_NoTaskStranded == \A t \in TaskFiles : mail[t].wellformed => ~Stranded(t)

\* C34: a task file is claimed by at most one worker: whatever the
\* interleaving of the workers' reads and renames, at most one of them moves
\* the file to processing and invokes the executor for it.
C34_ClaimedByAtMostOne ==
    \A t \in TaskFiles :
        /\ executed[t] <= 1
        /\ Cardinality({w \in Workers : Holds(w, t)}) <= 1
\* two workers read the same task file; one has renamed it and run the
\* executor, the other is about to try its rename
C34_Witness ==
    \E t \in TaskFiles, w, v \in Workers :
        /\ w # v /\ Holds(w, t) /\ executed[t] = 1
        /\ workers[v].task = t /\ workers[v].status = "read"

\* C35: every task file a worker claims leaves processing and ends with
\* exactly one outcome record: a result file in complete if processing
\* succeeded, the task file in failed if it raised.  Nothing stays in
\* processing once process_task has returned.
C35_OneOutcomeAfterReturn ==
    \A t \in TaskFiles :
        mail[t].done =>
            /\ mail[t].loc # "processing"
            /\ mail[t].result # (mail[t].loc = "failed")

(***************************************************************************)
(* Claims about the text fields of task events                             *)
(***************************************************************************)
StoredLen == ev_stored.kept + (IF ev_stored.ellipsis THEN EllipsisLen ELSE 0)
\* the bound of each field: 500 for the prompt, 1000 for the output; the
\* error is held to the larger of the two
FieldLimit(type) == IF type = "task_started" THEN PromptLimit ELSE OutputLimit

\* C24: the prompt of task_started, the output of task_completed and the
\* error of task_failed are stored with at most the field's bound plus the
\* ellipsis, whatever the input length, and a text within the bound is stored
\* unchanged.
C24_TextBounded ==
    ev_text.type \in TextEvents =>
        /\ StoredLen <= FieldLimit(ev_text.type) + EllipsisLen
        /\ ev_text.len <= FieldLimit(ev_text.type) => ev_stored = Verbatim(ev_text.len)

(***************************************************************************)
(* Claims about write_command racing with poll_once                        *)
(***************************************************************************)
\* C27: write_command replaces the slot atomically: a poll that runs while a
\* write is under way finds the complete previous command, the complete new
\* command or no slot, never an empty or partly written record.
C27_NoTornCommand == seen.polled => seen.raw \in {"absent", "json"}

(***************************************************************************)
(* Claims about the rate limit                                             *)
(***************************************************************************)
\* C28: two consecutive reads of the slot by one poller are at least the
\* minimum inter-poll interval apart, whichever threads made them.
C28_RateLimited == reads.n >= 2 => reads.gap >= MinPollInterval

\* C31: for a supported agent type execute_agent never raises because of
\* the leaf executor: whatever the executor raises, the call returns
\* success=false with execution_mode "error", never a command stop.
\* So a call that ran the leaf executor and observed no stop has either
\* completed or returned "error".
C31_LeafFailureIsError ==
    (ex_pc = "idle" /\ ex_leaf /\ state # "stopped")
        => ex_result \in {"error", "claude_code_native"}

\* C32: a call that logged task_started has logged exactly one terminal
\* event, task_completed or task_failed, when control leaves it.
Terminal == SelectSeq(ex_events, LAMBDA ev : ev.type \in {"task_completed", "task_failed"})
C32_OneTerminalEvent ==
    (ex_pc = "idle" /\ Logged("task_started")) => Len(Terminal) = 1

\* C33: execute_parallel returns one result per entry, in the order of the
\* entries, whatever the entries are; an invalid entry (not a dictionary,
\* without agent_type or prompt, or with an unsupported agent type) gives a
\* success=false result and the other entries are still executed.  (A call
\* left by an exception of the leaf executor is C31's case, not this one.)
C33_OneResultPerEntry ==
    par.status \notin {"idle", "running", "runtime_error"} =>
        /\ par.status = "returned"
        /\ Len(par.results) = Len(par.entries)
        /\ \A i \in 1..Len(par.results) :
              /\ par.results[i].entry = i
              /\ par.entries[i] # "valid" => ~par.results[i].success

\* C36: a director runs its stages in the fixed order planner, implementer,
\* tester, one at a time: the child of stage i+1 is created after the execution
\* of stage i returned and its prompt embeds that output, a child that is
\* executing is the latest one created, and the child ids of the aggregate
\* result are the director's children list, in that order.
C36_DirectorPipeline ==
    (cur # NoId /\ tasks[cur].agent_type \in DirectorTypes) =>
        /\ \A i \in 1..Len(sub_tasks) :
              /\ tasks[sub_tasks[i]].agent_type = StageTypes[i]
              /\ i > 1 => prompt_of[sub_tasks[i]] = OutputOf(sub_tasks[i - 1])
        /\ opc \in {"agent", "wait_for_resume", "run"} =>
              /\ stage = Len(sub_tasks)
              /\ leaf = sub_tasks[stage]
              /\ stage > 1 => stage_result = sub_tasks[stage - 1]
        /\ (opc \in {"publish_completed", "finally"} /\ tasks[cur].result = "aggregate")
              => sub_tasks = tasks[cur].children

\* C37: a task paused through the inbox stays PAUSED, its leaf executor not
\* invoked, until a resume request written after the pause request is there: a
\* resume request left from before the pause releases nothing; and after the
\* release neither request of that task is in the inbox.
C37_PausedUntilResumed ==
    /\ opc = "wait_for_resume" => tasks[leaf].state = "paused"
    /\ ~release.early
    /\ (opc = "run" /\ release.task = leaf) =>
           inbox \cap {<<"pause", leaf>>, <<"resume", leaf>>} = {}

\* the records that are whole in the file and were appended after the viewer
\* started, up to position pos
WholeRecords(pos) ==
    {i \in (view.start + 1)..pos :
        /\ log_file.text[i].part = log_file.text[i].of
        /\ Parses(log_file.text, view.start, i)}
Times(r) == Cardinality({k \in 1..Len(view.shown) : view.shown[k] = r})

\* C38: in follow mode the viewer prints each event once: no record is printed
\* twice, and when the viewer has read up to last_position every whole record
\* appended after it started, up to there, has been printed.
C38_EachEventShownOnce ==
    /\ \A k \in 1..Len(view.shown) : Times(view.shown[k]) = 1
    /\ view.pc = "stat" =>
          \A i \in WholeRecords(view.last_position) :
              Times([p |-> log_file.text[i].p, n |-> log_file.text[i].n]) = 1

\* ---- get_execution_tree ----
\* build_tree(task_id), as the ids of the nodes of the tree it returns in the
\* order they are built; an id the registry does not know gives {}, no node
RECURSIVE BuildTree(_), BuildTrees(_)
BuildTree(id) ==
    IF id \notin Registered THEN <<>>
    ELSE <<id>> \o BuildTrees(tasks[id].children)
\* [build_tree(i) for i in ids]
BuildTrees(ids) ==
    IF ids = <<>> THEN <<>> ELSE BuildTree(Head(ids)) \o BuildTrees(Tail(ids))
\* roots = [t for t in self.tasks.values() if t.parent_id is None]
Roots == SelectSeq([i \in Registered |-> i], LAMBDA t : tasks[t].parent_id = NoId)
GetExecutionTree ==
    [execution_tree |-> BuildTrees(Roots), active_stack |-> execution_stack,
     total_tasks |-> Len(tasks)]

\* C39: after any sequence of create_sub_agent calls, with any parent_id, every
\* task of the registry is exactly once in the tree get_execution_tree returns,
\* and total_tasks is the number of tasks the tree shows.
C39_TreeShowsEveryTask ==
    LET shown == GetExecutionTree.execution_tree
    IN  /\ \A t \in Registered :
              Cardinality({k \in 1..Len(shown) : shown[k] = t}) = 1
        /\ GetExecutionTree.total_tasks = Len(shown)

Spec == Init /\ [][Next]_vars

OrchSpec == Init /\ [][OrchNext]_vars

DirectorSpec == Init /\ [][DirectorNext]_vars

TreeSpec == Init /\ [][TreeNext]_vars

LogSpec == Init /\ [][LogNext]_vars

StepSpec == Init /\ [][StepNext]_vars

CallbackSpec == Init /\ [][CallbackNext]_vars

ExecSpec == Init /\ [][ExecNext]_vars

MailSpec == Init /\ [][MailNext]_vars

TextSpec == Init /\ [][TextNext]_vars

WriteSpec == Init /\ [][WriteNext]_vars

RateSpec == Init /\ [][RateNext]_vars

ParSpec == Init /\ [][ParNext]_vars

ViewSpec == Init /\ [][ViewNext]_vars
====
